---- MODULE Spec2Model ----
(***************************************************************************)
(* Model of the AI service of SI-AGENT                                     *)
(* (src/backend/src/services/AIService.ts): the transport client           *)
(* makeRequest, the response interpretation of parseApiPrompt and          *)
(* generateApiCode, and the facade operations; and of the Clerk webhook     *)
(* handler of the auth controller                                          *)
(* (src/backend/src/controllers/UserController.ts).                        *)
(*                                                                         *)
(* Texts are sequences of chunks (strings); a template literal is the      *)
(* concatenation of its chunks.  The empty sequence is the empty string.   *)
(* A reply content is a sequence of lexical tokens: the two brace tokens,  *)
(* the comma, complete "key":scalar pairs, a "key": prefix that must be    *)
(* followed by an object, and free text that holds no brace.               *)
(***************************************************************************)
EXTENDS Integers, Sequences, FiniteSets, TLC

\* ------------------------------------------------------------------ bounds
\* longest reply content (in tokens) an upstream answers with in Spec
MaxReplyLen == 3
\* longest text (in tokens) the interpreter is applied to in ExtractSpec
MaxTextLen == 5
\* the sync-user requests in flight together
NumSyncs == 2
\* the messages a chat may hold
MaxMessages == 4

\* ------------------------------------------------------------------ tokens
LB == "{"
RB == "}"
Comma == ","
Noise == "text"
SchemaKey == "\"schema\":"
IntentPair == "\"intent\":\"list books\""
APair == "\"a\":1"

PairTokens == {IntentPair, APair}
KeyTokens == {SchemaKey}
Tokens == {LB, RB, Comma, Noise} \cup PairTokens \cup KeyTokens

\* the key and the scalar value a pair token stands for
PairKey(tok) == IF tok = IntentPair THEN "intent" ELSE "a"
PairVal(tok) == IF tok = IntentPair THEN <<"list books">> ELSE <<"1">>
KeyName(tok) == "schema"

RECURSIVE SeqsUpTo(_, _)
SeqsUpTo(S, n) ==
  IF n = 0 THEN {<<>>}
  ELSE LET shorter == SeqsUpTo(S, n - 1)
       IN  shorter \cup {Append(s, t) : s \in {x \in shorter : Len(x) = n - 1}, t \in S}

ReplyContents == SeqsUpTo(Tokens, MaxReplyLen)
Texts == SeqsUpTo(Tokens, MaxTextLen)

\* ------------------------------------------------- objects (parsed values)
\* A JSON object is the map from the paths of its leaves to the leaves; a
\* leaf is the text of a scalar, or EmptyObjLeaf for an object without
\* members (the top-level empty object is the path <<>>).
EmptyMap == [p \in {} |-> <<>>]
EmptyObjLeaf == <<"{}">>
EmptyArrLeaf == <<"[]">>

IsPrefix(p, q) == Len(p) <= Len(q) /\ SubSeq(q, 1, Len(p)) = p

\* assignment obj[key] = value inside the object at path: the member
\* replaces an earlier member of the same name (JSON.parse keeps the last)
Put(acc, path, sub) ==
  LET keep == {q \in DOMAIN acc : ~IsPrefix(path, q)}
  IN  [q \in keep \cup DOMAIN sub |-> IF q \in DOMAIN sub THEN sub[q] ELSE acc[q]]

HasField(obj, f) == \E p \in DOMAIN obj : Len(p) >= 1 /\ p[1] = f

ParseFail == [ok |-> FALSE, next |-> 0, val |-> EmptyMap]

\* JSON.parse on a token sequence: object := "{" [member {"," member}] "}"
RECURSIVE ParseObject(_, _, _), ParseMembers(_, _, _, _)
ParseObject(t, i, path) ==
  IF i > Len(t) \/ t[i] # LB THEN ParseFail
  ELSE IF i + 1 <= Len(t) /\ t[i + 1] = RB
       THEN [ok |-> TRUE, next |-> i + 2, val |-> (path :> EmptyObjLeaf)]
       ELSE ParseMembers(t, i + 1, path, EmptyMap)

ParseMembers(t, i, path, acc) ==
  IF i > Len(t) THEN ParseFail
  ELSE
    LET member ==
          IF t[i] \in PairTokens
          THEN [ok |-> TRUE, next |-> i + 1,
                val |-> Put(acc, Append(path, PairKey(t[i])),
                            (Append(path, PairKey(t[i])) :> PairVal(t[i])))]
          ELSE IF t[i] \in KeyTokens
          THEN LET sub == ParseObject(t, i + 1, Append(path, KeyName(t[i])))
               IN  IF sub.ok
                   THEN [ok |-> TRUE, next |-> sub.next,
                         val |-> Put(acc, Append(path, KeyName(t[i])), sub.val)]
                   ELSE ParseFail
          ELSE ParseFail
    IN  IF ~member.ok \/ member.next > Len(t) THEN ParseFail
        ELSE IF t[member.next] = RB
             THEN [ok |-> TRUE, next |-> member.next + 1, val |-> member.val]
        ELSE IF t[member.next] = Comma
             THEN ParseMembers(t, member.next + 1, path, member.val)
        ELSE ParseFail

\* JSON.parse(text): ok = FALSE stands for the SyntaxError it throws
JSONParse(t) ==
  LET r == ParseObject(t, 1, <<>>)
  IN  IF r.ok /\ r.next = Len(t) + 1 THEN [ok |-> TRUE, val |-> r.val]
      ELSE [ok |-> FALSE, val |-> EmptyMap]

\* -------------------------------------------------------- brace extraction
NoMatch == [found |-> FALSE, text |-> <<>>]

\* a non-greedy variant: the match ends at the first "}" after its start
BraceSpan_lazy(content) ==
  LET starts == {i \in 1..Len(content) :
                   content[i] = LB /\ \E j \in (i + 1)..Len(content) : content[j] = RB}
  IN  IF starts = {} THEN NoMatch
      ELSE LET i == CHOOSE s \in starts : \A s2 \in starts : s <= s2
               ends == {j \in (i + 1)..Len(content) : content[j] = RB}
               j == CHOOSE e \in ends : \A e2 \in ends : e <= e2
           IN  [found |-> TRUE, text |-> SubSeq(content, i, j)]

\* content.match(/\{[\s\S]*\}/): the regex engine tries the start positions
\* from the left; at a start holding "{" the greedy [\s\S]* first takes the
\* rest of the text and backtracks to the rightmost "}"
BraceSpan(content) ==
  LET starts == {i \in 1..Len(content) :
                   content[i] = LB /\ \E j \in (i + 1)..Len(content) : content[j] = RB}
  IN  IF starts = {} THEN NoMatch
      ELSE LET i == CHOOSE s \in starts : \A s2 \in starts : s <= s2
               ends == {j \in (i + 1)..Len(content) : content[j] = RB}
               j == CHOOSE e \in ends : \A e2 \in ends : e >= e2
           IN  [found |-> TRUE, text |-> SubSeq(content, i, j)]

\* the interpretation block of parseApiPrompt and generateApiCode:
\*   try { m = content.match(..); if (m) return JSON.parse(m[0]) } catch {}
\*   return fallback
\* threw = TRUE would be an exception escaping the block
Interpreted(v) == [threw |-> FALSE, val |-> v]

\* a variant without the inner try/catch: a SyntaxError escapes
InterpretReply_nocatch(content, fallback) ==
  LET m == BraceSpan(content)
  IN  IF m.found
      THEN IF JSONParse(m.text).ok THEN Interpreted(JSONParse(m.text).val)
           ELSE [threw |-> TRUE, val |-> EmptyMap]
      ELSE Interpreted(fallback)

\* a variant that backfills the fields the parsed object lacks
InterpretReply_merge(content, fallback) ==
  LET m == BraceSpan(content)
  IN  IF m.found /\ JSONParse(m.text).ok
      THEN LET parsed == JSONParse(m.text).val
               extra == {p \in DOMAIN fallback : ~HasField(parsed, p[1])}
           IN  Interpreted([q \in (DOMAIN parsed \ {<<>>}) \cup extra |->
                              IF q \in DOMAIN parsed THEN parsed[q] ELSE fallback[q]])
      ELSE Interpreted(fallback)

InterpretReply(content, fallback) ==
  LET m == BraceSpan(content)
  IN  IF m.found /\ JSONParse(m.text).ok
      THEN Interpreted(JSONParse(m.text).val)
      ELSE Interpreted(fallback)

\* ------------------------------------------------------------ configuration
DefaultModel == "deepseek/deepseek-chat-v3.1:free"
DefaultBaseUrl == "https://openrouter.ai/api/v1"

\* process.env as the constructor reads it; "" is an unset variable
Env(key, model, baseUrl) ==
  [OPENROUTER_API_KEY |-> key, OPENROUTER_MODEL |-> model, OPENROUTER_BASE_URL |-> baseUrl]
Envs == {Env("", "", ""),
         Env("", "openai/gpt-4o-mini", "http://localhost:8080/v1"),
         Env("sk-or-v1-key", "", ""),
         Env("sk-or-v1-other", "", ""),
         Env("sk-or-v1-key", "openai/gpt-4o-mini", "http://localhost:8080/v1")}

OrString(s, d) == IF s # "" THEN s ELSE d

\* a constructor without the check of the key
Construct_nocheck(e) ==
  [ok |-> TRUE,
   apiKey |-> e.OPENROUTER_API_KEY,
   model |-> OrString(e.OPENROUTER_MODEL, DefaultModel),
   baseUrl |-> OrString(e.OPENROUTER_BASE_URL, DefaultBaseUrl)]

\* new AIService(): ok = FALSE is the Error it throws
Construct(e) ==
  [ok |-> e.OPENROUTER_API_KEY # "",
   apiKey |-> e.OPENROUTER_API_KEY,
   model |-> OrString(e.OPENROUTER_MODEL, DefaultModel),
   baseUrl |-> OrString(e.OPENROUTER_BASE_URL, DefaultBaseUrl)]

\* the fields before the constructor has run
NoConfig == [apiKey |-> "", model |-> "", baseUrl |-> ""]

\* ------------------------------------------------------------------ errors
CommPrefix == "Failed to communicate with AI service: "
TimeoutMsg == <<"Request timeout - OpenRouter API took too long to respond">>
NetworkMsg == <<"Network error - Cannot reach OpenRouter API">>
NoResponse == <<"No response generated">>
ConnTestFailed == <<"Connection test failed">>

\* an Error object; statusCode 0 and code "" are undefined properties
NoError == [name |-> "", message |-> <<>>, code |-> "", statusCode |-> 0,
            isOperational |-> FALSE]
ErrorOf(name, message, code) ==
  [name |-> name, message |-> message, code |-> code, statusCode |-> 0,
   isOperational |-> FALSE]

createError(message, statusCode) ==
  [name |-> "Error", message |-> message, code |-> "", statusCode |-> statusCode,
   isOperational |-> TRUE]

\* the status errorHandler answers with
ErrorStatus(err) ==
  IF err.name \in {"ValidationError", "PrismaClientKnownRequestError"} THEN 400
  ELSE IF err.name \in {"JsonWebTokenError", "TokenExpiredError"} THEN 401
  ELSE IF err.statusCode # 0 THEN err.statusCode
  ELSE 500

\* what prisma throws for a violated constraint or a missing record
PrismaError == ErrorOf("PrismaClientKnownRequestError", <<"prisma">>, "P2002")

\* what controller.abort() makes the pending fetch reject with
AbortError == ErrorOf("AbortError", <<"The user aborted a request.">>, "")
\* connection-level failures of fetch
NetworkCodes == {"ENOTFOUND", "ECONNREFUSED", "ECONNRESET"}
NetworkError(code) == ErrorOf("FetchError", <<"request failed, reason: ", code>>, code)
\* response.json() on a body that is not JSON
InvalidJsonError == ErrorOf("FetchError", <<"invalid json response body">>, "")
\* the body stream breaks while it is read
BodyStreamError == ErrorOf("FetchError", <<"Invalid response body: Premature close">>,
                           "ERR_STREAM_PREMATURE_CLOSE")
\* property access on null / undefined
TypeErrorOf(what) == ErrorOf("TypeError", <<"Cannot read properties of ", what>>, "")

\* HTTP statuses the upstream answers with
Statuses == {200, 201, 401, 429, 500, 503}
ResponseOk(status) == status >= 200 /\ status <= 299
StatusText(status) ==
  CASE status = 200 -> <<"OK">>
    [] status = 201 -> <<"Created">>
    [] status = 401 -> <<"Unauthorized">>
    [] status = 429 -> <<"Too Many Requests">>
    [] status = 500 -> <<"Internal Server Error">>
    [] OTHER -> <<>>

\* the error thrown on a response that is not ok (line 101)
UpstreamStatusError(status) ==
  createError(<<"AI service error: ">> \o StatusText(status), status)

\* a catch block that looks for the abort in error.code
MakeRequestCatch_code(error) ==
  LET errorMessage ==
        IF error.code = "AbortError" THEN TimeoutMsg
        ELSE IF error.code = "ENOTFOUND" \/ error.code = "ECONNREFUSED" THEN NetworkMsg
        ELSE error.message
  IN  createError(<<CommPrefix>> \o errorMessage, 500)

\* a classification that knows no network failure
ErrorMessage_nonet(error) ==
  IF error.name = "AbortError" THEN TimeoutMsg ELSE error.message

\* errorMessage of the catch block (lines 112-118)
ErrorMessage(error) ==
  IF error.name = "AbortError" THEN TimeoutMsg
  ELSE IF error.code = "ENOTFOUND" \/ error.code = "ECONNREFUSED" THEN NetworkMsg
  ELSE error.message

\* the catch block of makeRequest: every error thrown inside the try,
\* the one of line 101 included, is rethrown as a 500
MakeRequestCatch(error) == createError(<<CommPrefix>> \o ErrorMessage(error), 500)

\* ---------------------------------------------------------------- requests
\* prompt.substring(0, 100) keeps at most this many characters (line 279)
IntentMaxLen == 100

Min(a, b) == IF a <= b THEN a ELSE b
\* text.substring(0, n)
Substring(text, n) == SubSeq(text, 1, Min(n, Len(text)))

\* prompts are sequences of characters
ShortPrompt == <<"l", "i", "s", "t">>
LongPrompt == [i \in 1..(IntentMaxLen + 1) |-> "x"]
Prompts == {ShortPrompt, LongPrompt}
SomeContext == <<"bookshop">>
TestPrompt ==
  <<"Hello! Please respond with \"AI service is working correctly\" to confirm the connection.">>

\* a caller-supplied schema is given by its JSON text; <<>> is undefined
SchemaText == <<LB, APair, RB>>
SchemaArgs == {<<>>, SchemaText}
SchemaObj(arg) == IF arg = <<>> THEN (<<>> :> EmptyObjLeaf) ELSE JSONParse(arg).val

Ops == {"generateResponse", "parseApiPrompt", "generateApiCode", "testConnection"}
ParsingOps == {"parseApiPrompt", "generateApiCode"}
ThrowingOps == {"generateResponse", "parseApiPrompt", "generateApiCode"}

\* maxTokens, temperature: the optional numbers of AIPromptRequest, as
\* texts; model: a property the caller may put on the request object
NoReq == [prompt |-> <<>>, context |-> <<>>, method |-> <<>>,
          inputSchema |-> <<>>, outputSchema |-> <<>>,
          maxTokens |-> <<>>, temperature |-> <<>>, model |-> <<>>]
WithOptions(r) ==
  [r EXCEPT !.maxTokens = <<"64">>, !.temperature = <<"0.9">>, !.model = <<"openai/gpt-4o">>]

\* the arguments of a call; prompt is the description of generateApiCode
Requests(op) ==
  CASE op = "generateResponse" ->
         {[NoReq EXCEPT !.prompt = p, !.context = c] : p \in Prompts, c \in {<<>>, SomeContext}}
         \cup {WithOptions([NoReq EXCEPT !.prompt = ShortPrompt, !.context = c]) :
                  c \in {<<>>, SomeContext}}
    [] op = "parseApiPrompt" ->
         {[NoReq EXCEPT !.prompt = p] : p \in Prompts}
    [] op = "generateApiCode" ->
         {[NoReq EXCEPT !.prompt = ShortPrompt, !.method = m,
                        !.inputSchema = i, !.outputSchema = o] :
            m \in {<<>>, <<"POST">>}, i \in SchemaArgs, o \in SchemaArgs}
    [] OTHER -> {NoReq}

\* value || fallback on texts
OrText(text, d) == IF text # <<>> THEN text ELSE d

\* ---------------------------------------------------------------- messages
SystemPersona ==
  <<"You are a helpful AI assistant for the SI-AGENT platform. Provide clear, concise, and accurate responses.">>
AnalysisInstruction == <<"Analyze API requests and return structured information as JSON: ...">>
CodeGenInstruction == <<"You are an expert API developer. Generate Express.js API code based on user descriptions. ...">>

Message(role, content) == [role |-> role, content |-> content]

ChatMessages(req) ==
  <<Message("system", SystemPersona),
    Message("user", IF req.context # <<>>
                    THEN <<"Context: ">> \o req.context \o <<"\n\nPrompt: ">> \o req.prompt
                    ELSE req.prompt)>>

AnalysisMessages(req) ==
  <<Message("system", AnalysisInstruction),
    Message("user", <<"Analyze this API request: ">> \o req.prompt)>>

CodeGenMessages(req) ==
  <<Message("system", CodeGenInstruction),
    Message("user",
      <<"Generate an API for: ">> \o req.prompt \o <<"\n\n">>
      \o (IF req.method # <<>> THEN <<"Preferred HTTP method: ">> \o req.method ELSE <<>>)
      \o <<"\n">>
      \o (IF req.inputSchema # <<>>
          THEN <<"Input schema requirements: ">> \o req.inputSchema ELSE <<>>)
      \o <<"\n">>
      \o (IF req.outputSchema # <<>>
          THEN <<"Output schema requirements: ">> \o req.outputSchema ELSE <<>>)
      \o <<"\n\nPlease generate complete, working code that follows best practices.">>)>>

\* the request testConnection hands to generateResponse
TestConnectionReq ==
  [NoReq EXCEPT !.prompt = TestPrompt, !.maxTokens = <<"50">>, !.temperature = <<"0.1">>]

MessagesOf(op, req) ==
  CASE op = "generateResponse" -> ChatMessages(req)
    [] op = "parseApiPrompt" -> AnalysisMessages(req)
    [] op = "generateApiCode" -> CodeGenMessages(req)
    [] OTHER -> ChatMessages(TestConnectionReq)

\* the options each operation hands to makeRequest
Options(maxTokens, temperature) == [maxTokens |-> maxTokens, temperature |-> temperature]
OptionsOf(op, req) ==
  CASE op = "generateResponse" -> Options(req.maxTokens, req.temperature)
    [] op = "parseApiPrompt" -> Options(<<"500">>, <<"0.2">>)
    [] op = "generateApiCode" -> Options(<<"2000">>, <<"0.3">>)
    [] OTHER -> Options(TestConnectionReq.maxTokens, TestConnectionReq.temperature)

\* a body that passes the options on
RequestBody_opts(cfg, messages, options) ==
  [model |-> cfg.model, messages |-> messages,
   max_tokens |-> options.maxTokens, temperature |-> options.temperature]

\* the body makeRequest posts: the options argument is not used
RequestBody(cfg, messages, options) == [model |-> cfg.model, messages |-> messages]

\* a transport that posts the request a second time
Post_twice(posted, body) == Append(Append(posted, body), body)

\* fetch(url, {method: 'POST', body}): one request goes out
Post(posted, body) == Append(posted, body)

\* ------------------------------------------------------------ upstream data
\* The value response.json() yields.  isNull: the body is the JSON null;
\* hasChoices: the object has a choices array; a choice is null, or an
\* object with or without message, whose message is with or without content.
Choice(isNull, hasMessage, hasContent, content) ==
  [isNull |-> isNull, hasMessage |-> hasMessage, hasContent |-> hasContent,
   content |-> content]
Data(isNull, hasChoices, choices) ==
  [isNull |-> isNull, hasChoices |-> hasChoices, choices |-> choices]

NoData == Data(TRUE, FALSE, <<>>)
DataShapes ==
  {Data(TRUE, FALSE, <<>>), Data(FALSE, FALSE, <<>>), Data(FALSE, TRUE, <<>>),
   Data(FALSE, TRUE, <<Choice(TRUE, FALSE, FALSE, <<>>)>>),
   Data(FALSE, TRUE, <<Choice(FALSE, FALSE, FALSE, <<>>)>>),
   Data(FALSE, TRUE, <<Choice(FALSE, TRUE, FALSE, <<>>)>>)}
  \cup {Data(FALSE, TRUE, <<Choice(FALSE, TRUE, TRUE, c)>>) : c \in ReplyContents}

\* a result of evaluating an expression: threw, or a value that may be
\* undefined
Threw(error) == [threw |-> TRUE, error |-> error, defined |-> FALSE, text |-> <<>>]
Undefined == [threw |-> FALSE, error |-> NoError, defined |-> FALSE, text |-> <<>>]
Value(text) == [threw |-> FALSE, error |-> NoError, defined |-> TRUE, text |-> text]

\* response.choices[0]?.message?.content
ChoiceContent(data) ==
  IF ~data.hasChoices THEN Threw(TypeErrorOf("undefined (reading '0')"))
  ELSE IF Len(data.choices) = 0 THEN Undefined
  ELSE LET c == data.choices[1]
       IN  IF c.isNull \/ ~c.hasMessage \/ ~c.hasContent THEN Undefined
           ELSE Value(c.content)

\* ------------------------------------------------------------- log records
\* The records the transport client hands to the logger: a level, a text
\* and the metadata, a map from field names to texts.
LogRecord(level, text, meta) == [level |-> level, text |-> text, meta |-> meta]

RECURSIVE MessagesText(_)
MessagesText(ms) ==
  IF ms = <<>> THEN <<>>
  ELSE <<"{role:", Head(ms).role, ",content:">> \o Head(ms).content \o <<"}">>
       \o MessagesText(Tail(ms))

\* JSON.stringify(requestBody, null, 2)
Stringify(body) == <<"{model:", body.model, ",messages:[">> \o MessagesText(body.messages) \o <<"]}">>

\* the bodies an upstream sends with a status that is not ok
ErrorBodies == {<<>>, <<"{\"error\":{\"message\":\"Rate limit exceeded\"}}">>}

\* a request record that also shows the headers of the request
RequestLog_headers(cfg, messages, body) ==
  LogRecord("info", "Making OpenRouter API request",
            ("url" :> <<cfg.baseUrl, "/chat/completions">>)
            @@ ("model" :> <<cfg.model>>)
            @@ ("baseUrl" :> <<cfg.baseUrl>>)
            @@ ("messagesCount" :> <<ToString(Len(messages))>>)
            @@ ("requestBody" :> Stringify(body))
            @@ ("headers" :> <<"Authorization: Bearer ", cfg.apiKey>>))

\* lines 72-78
RequestLog(cfg, messages, body) ==
  LogRecord("info", "Making OpenRouter API request",
            ("url" :> <<cfg.baseUrl, "/chat/completions">>)
            @@ ("model" :> <<cfg.model>>)
            @@ ("baseUrl" :> <<cfg.baseUrl>>)
            @@ ("messagesCount" :> <<ToString(Len(messages))>>)
            @@ ("requestBody" :> Stringify(body)))

\* line 100
UpstreamErrorLog(status, errorData) ==
  LogRecord("error", "OpenRouter API error:",
            ("status" :> <<ToString(status)>>) @@ ("error" :> errorData))

\* lines 105-108; the data modelled carry no usage, so tokens is 0
SuccessLog(cfg, data) ==
  LogRecord("info", "OpenRouter API call successful",
            ("model" :> <<cfg.model>>) @@ ("tokens" :> <<"0">>))

\* lines 120-129; an undefined error.code is the empty text
FailureLog(cfg, error) ==
  LogRecord("error", "AI service request failed:",
            ("message" :> ErrorMessage(error))
            @@ ("originalError" :> error.message)
            @@ ("errorName" :> <<error.name>>)
            @@ ("errorCode" :> (IF error.code = "" THEN <<>> ELSE <<error.code>>))
            @@ ("stack" :> (<<error.name, ": ">> \o error.message \o <<"\n    at ...">>))
            @@ ("apiKey" :> (IF cfg.apiKey # "" THEN <<"SET">> ELSE <<"NOT_SET">>))
            @@ ("model" :> <<cfg.model>>)
            @@ ("baseUrl" :> <<cfg.baseUrl>>))

\* ---------------------------------------------------------------- outcomes
\* What a facade call hands to its caller: a returned value (a text, an
\* object or the connection report, by operation) or a rejection.
NoConn == [success |-> FALSE, model |-> "", response |-> <<>>]
Pending == [kind |-> "pending", text |-> <<>>, obj |-> EmptyMap, conn |-> NoConn,
            error |-> NoError]
ReturnedText(text) == [Pending EXCEPT !.kind = "returned", !.text = text]
ReturnedObj(obj) == [Pending EXCEPT !.kind = "returned", !.obj = obj]
ReturnedConn(conn) == [Pending EXCEPT !.kind = "returned", !.conn = conn]
Rejected(error) == [Pending EXCEPT !.kind = "rejected", !.error = error]

\* the result of makeRequest: the data it returns or the error it throws
NoTransport == [state |-> "none", data |-> NoData, error |-> NoError]
TransportOk(data) == [state |-> "ok", data |-> data, error |-> NoError]
TransportFailed(error) == [state |-> "failed", data |-> NoData, error |-> error]

\* makeRequest from the parsed body on (lines 104-110): the log record
\* reads data.usage, which throws on a null body, inside the try
MakeRequestReturn(data) ==
  IF data.isNull
  THEN TransportFailed(MakeRequestCatch(TypeErrorOf("null (reading 'usage')")))
  ELSE TransportOk(data)

\* the record written on the way: the success record, or the failure
\* record when reading data.usage threw
MakeRequestReturnLog(cfg, data) ==
  IF data.isNull
  THEN FailureLog(cfg, TypeErrorOf("null (reading 'usage')"))
  ELSE SuccessLog(cfg, data)

\* the object at path inside a larger object
Nest(path, obj) ==
  [q \in {path \o p2 : p2 \in DOMAIN obj} |-> obj[SubSeq(q, Len(path) + 1, Len(q))]]

\* a fallback that keeps the whole prompt as intent
AnalysisFallback_whole(req) ==
  (<<"intent">> :> req.prompt)
  @@ (<<"suggestedEndpoint">> :> <<"/api/generated">>)
  @@ (<<"suggestedMethod">> :> <<"GET">>)
  @@ (<<"parameters">> :> EmptyArrLeaf)
  @@ (<<"complexity">> :> <<"medium">>)

\* the fallback of parseApiPrompt (lines 278-284)
AnalysisFallback(req) ==
  (<<"intent">> :> Substring(req.prompt, IntentMaxLen))
  @@ (<<"suggestedEndpoint">> :> <<"/api/generated">>)
  @@ (<<"suggestedMethod">> :> <<"GET">>)
  @@ (<<"parameters">> :> EmptyArrLeaf)
  @@ (<<"complexity">> :> <<"medium">>)

\* the fallback of generateApiCode (lines 220-229)
CodeFallback(req, content) ==
  (<<"endpoint">> :> <<"/api/generated">>)
  @@ (<<"method">> :> OrText(req.method, <<"GET">>))
  @@ (<<"controllerCode">> :> (<<"// Generated from: ">> \o req.prompt \o <<"\n">> \o content))
  @@ (<<"serviceCode">> :> <<"// Service logic would go here">>)
  @@ Nest(<<"schema", "input">>, SchemaObj(req.inputSchema))
  @@ Nest(<<"schema", "output">>, SchemaObj(req.outputSchema))

\* a catch block that answers with the default text instead of rethrowing
GenerateResponseCatch_swallow(error) == ReturnedText(NoResponse)

\* catch (error) { logger.error(..); throw error } of the three operations
GenerateResponseCatch(error) == Rejected(error)
GenerateApiCodeCatch(error) == Rejected(error)
ParseApiPromptCatch(error) == Rejected(error)

\* content of the first choice, or '' (lines 207 and 266)
ReplyContent(value) == OrText(IF value.defined THEN value.text ELSE <<>>, <<>>)

\* generateResponse after makeRequest has settled
GenerateResponse(req, tr) ==
  IF tr.state = "failed" THEN GenerateResponseCatch(tr.error)
  ELSE LET c == ChoiceContent(tr.data)
       IN  IF c.threw THEN GenerateResponseCatch(c.error)
           ELSE ReturnedText(OrText(IF c.defined THEN c.text ELSE <<>>, NoResponse))

\* generateApiCode after makeRequest has settled
GenerateApiCode(req, tr) ==
  IF tr.state = "failed" THEN GenerateApiCodeCatch(tr.error)
  ELSE LET c == ChoiceContent(tr.data)
       IN  IF c.threw THEN GenerateApiCodeCatch(c.error)
           ELSE LET r == InterpretReply(ReplyContent(c), CodeFallback(req, ReplyContent(c)))
                IN  IF r.threw
                    THEN GenerateApiCodeCatch(ErrorOf("SyntaxError", <<"Unexpected token">>, ""))
                    ELSE ReturnedObj(r.val)

\* parseApiPrompt after makeRequest has settled
ParseApiPrompt(req, tr) ==
  IF tr.state = "failed" THEN ParseApiPromptCatch(tr.error)
  ELSE LET c == ChoiceContent(tr.data)
       IN  IF c.threw THEN ParseApiPromptCatch(c.error)
           ELSE LET r == InterpretReply(ReplyContent(c), AnalysisFallback(req))
                IN  IF r.threw
                    THEN ParseApiPromptCatch(ErrorOf("SyntaxError", <<"Unexpected token">>, ""))
                    ELSE ReturnedObj(r.val)

\* a variant whose catch block rethrows
TestConnection_rethrow(cfg, inner) ==
  IF inner.kind = "returned"
  THEN ReturnedConn([success |-> TRUE, model |-> cfg.model, response |-> inner.text])
  ELSE Rejected(inner.error)

\* testConnection once its generateResponse call has settled with inner
TestConnection(cfg, inner) ==
  IF inner.kind = "returned"
  THEN ReturnedConn([success |-> TRUE, model |-> cfg.model, response |-> inner.text])
  ELSE ReturnedConn([success |-> FALSE, model |-> cfg.model,
                     response |-> OrText(inner.error.message, ConnTestFailed)])

\* the generateResponse call inside testConnection
InnerCall(o, tr) ==
  IF o = "testConnection" THEN GenerateResponse(TestConnectionReq, tr) ELSE Pending

\* the continuation of the facade operation o once makeRequest has settled
Facade(cfg, o, r, tr) ==
  CASE o = "generateResponse" -> GenerateResponse(r, tr)
    [] o = "parseApiPrompt" -> ParseApiPrompt(r, tr)
    [] o = "generateApiCode" -> GenerateApiCode(r, tr)
    [] OTHER -> TestConnection(cfg, InnerCall(o, tr))

\* ------------------------------------------------------------------- state
VARIABLES
  env,          \* the environment of the process
  instance,     \* "unbuilt", "built", or "threw" when the constructor threw
  config,       \* apiKey, model, baseUrl of the AIService instance
  pc,           \* where the call in progress stands
  op,           \* the facade operation called
  req,          \* its arguments
  timerArmed,   \* the setTimeout of makeRequest is pending
  sent,         \* the request bodies posted during the call
  upstream,     \* status and body kind of the HTTP response received
  transport,    \* what makeRequest returned or threw
  timedOut,     \* the timer aborted the pending fetch
  inner,        \* outcome of generateResponse inside testConnection
  outcome,      \* what the caller of the facade operation gets
  logs,         \* the log records of the transport client during the call
  twinLogs,     \* the records the same run writes under the other API key
  xpc, xtext, xfallback, xmatch, xresult,
                \* the interpreter applied to a text on its own
  calls,        \* the facade calls in flight on the instance, by call
  db,           \* the rows of the local user table, by clerkId
  webhook,      \* the webhook request handled last and what it did
  lastUserEvent, \* the user event handled last for each clerkId
  clerk,        \* publicMetadata.role of each user at the identity provider
  clerkSecret,  \* process.env.CLERK_SECRET_KEY
  areq,         \* the request passing through the auth middlewares
  ctl,          \* the request AIController is handling
  syncs,        \* the sync-user requests in flight, by request
  chat          \* the state of the chat component and of its request

cfgVars == <<env, instance, config>>
svcVars == <<env, instance, config, pc, op, req, timerArmed, sent, upstream, transport,
             timedOut, inner, outcome, logs, twinLogs>>
extVars == <<xpc, xtext, xfallback, xmatch, xresult>>
concVars == <<calls>>
webVars == <<db, webhook, lastUserEvent>>
authVars == <<clerk, clerkSecret, areq>>
ctlVars == <<ctl>>
syncVars == <<syncs>>
chatVars == <<chat>>
moreVars == <<authVars, ctlVars, syncVars, chatVars>>
vars == <<env, instance, config, pc, op, req, timerArmed, sent, upstream, transport,
          timedOut, inner, outcome, logs, twinLogs, xpc, xtext, xfallback, xmatch, xresult, calls, db, webhook,
          lastUserEvent, clerk, clerkSecret, areq, ctl, syncs, chat>>

NoUpstream == [status |-> 0, body |-> "none", failure |-> ""]

\* the number of calls that can be in flight together
NumCalls == 2
CallIds == 1..NumCalls

\* a call that has not started
IdleCall ==
  [pc |-> "idle", op |-> "none", req |-> NoReq, timerArmed |-> FALSE, controller |-> 0,
   upstream |-> NoUpstream, reply |-> NoData, transport |-> NoTransport,
   timedOut |-> FALSE, outcome |-> Pending]

NoCalls == [c \in CallIds |-> IdleCall]

\* the users of the identity provider and what its events say of them
ClerkIds == {"user_1", "user_2"}
WebEmails == {"a@x.io"}
EmailLists == {<<>>} \cup {<<e>> : e \in WebEmails}
MetaRoles == {"", "admin"}
UserEventTypes == {"user.created", "user.updated", "user.deleted"}
EventTypes == UserEventTypes \cup {"session.created", "session.ended", "organization.created"}

\* req.body of a webhook request: type ("" when absent) and data (id or
\* user_id, "" when data or the id is absent;
\* email_addresses, public_metadata.role; "" stands for an absent role)
Event(type, id, emails, role) ==
  [type |-> type, id |-> id, email_addresses |-> emails, role |-> role]
NoEvent == Event("none", "", <<>>, "")
WebhookEvents ==
  {Event(t, u, l, r) : <<t, u, l, r>> \in {"user.created", "user.updated"} \X ClerkIds
                                          \X EmailLists \X MetaRoles}
  \cup {Event(t, u, <<>>, "") : <<t, u>> \in (EventTypes \ {"user.created", "user.updated"})
                                            \X ClerkIds}
  \cup {Event(t, "", <<>>, "") : t \in EventTypes \cup {""}}

\* a row of model User: clerkId is its key here, email is unique, role
\* defaults to "user", lastLoginAt is optional
Row(email, role, lastLoginAt) ==
  [present |-> TRUE, email |-> email, role |-> role, lastLoginAt |-> lastLoginAt]
NoRow == [present |-> FALSE, email |-> "", role |-> "", lastLoginAt |-> FALSE]
NoRows == [u \in ClerkIds |-> NoRow]
NoWebhook == [signed |-> FALSE, changed |-> FALSE, failed |-> FALSE, unhandled |-> FALSE,
              status |-> 0]

WebOff ==
  /\ db = NoRows
  /\ webhook = NoWebhook
  /\ lastUserEvent = [u \in ClerkIds |-> NoEvent]

\* req.user and req.auth as the middlewares attach them
NoUser == [set |-> FALSE, id |-> "", email |-> "", role |-> ""]
UserInfo(id, email, role) == [set |-> TRUE, id |-> id, email |-> email, role |-> role]
NoAuth == [set |-> FALSE, userId |-> "", sessionId |-> ""]
AuthInfo(userId, sessionId) == [set |-> TRUE, userId |-> userId, sessionId |-> sessionId]

\* what is thrown inside a middleware: an error with its statusCode (set
\* by createError) and its status (set by the Clerk SDK)
NoThrown == [message |-> <<>>, statusCode |-> 0, status |-> 0]
Thrown(error) == [message |-> error.message, statusCode |-> error.statusCode, status |-> 0]
ClerkFailure(status, message) == [message |-> message, statusCode |-> 0, status |-> status]

\* a request before any middleware has seen it
NoRequest ==
  [pc |-> "idle", mw |-> "none", route |-> "", header |-> <<>>, body |-> "", roles |-> {},
   token |-> "", user |-> NoUser, auth |-> NoAuth, verified |-> FALSE,
   raised |-> NoThrown, nextCalls |-> 0, nextErr |-> NoError, authzCalls |-> 0,
   authzErr |-> NoError, handlerRan |-> FALSE]

AuthOff ==
  /\ clerk = [u \in ClerkIds |-> ""]
  /\ clerkSecret = ""
  /\ areq = NoRequest

\* req.body.prompt (req.body.description): absent, or a text
NoField == [present |-> FALSE, text |-> <<>>]
Field(text) == [present |-> TRUE, text |-> text]

\* no request has reached AIController
NoCtl == [pc |-> "idle", route |-> "", body |-> NoField, status |-> 0, calls |-> 0]
CtlOff == ctl = NoCtl

\* a sync-user request: the user of req.user, what findUnique found, and
\* the response
SyncIds == 1..NumSyncs
NoSync == [pc |-> "idle", user |-> "", found |-> FALSE, status |-> 0, row |-> NoRow]
SyncOff == syncs = [i \in SyncIds |-> NoSync]

\* the chat component after mounting: its four states, what the last
\* render showed (the values its handlers close over), the handlers
\* awaiting fetch and response.json(), and how the last request ended
NoErrorText == [isNull |-> TRUE, message |-> <<>>]
ErrorText(message) == [isNull |-> FALSE, message |-> message]
NoLast == [kind |-> "none", base |-> 0, ok |-> FALSE, body |-> "none"]
NoChat ==
  [messages |-> <<>>, input |-> "", isLoading |-> FALSE, error |-> NoErrorText,
   view |-> [input |-> "", isLoading |-> FALSE],
   fetching |-> 0, reading |-> 0, event |-> "none", last |-> NoLast]
ChatOff == chat = NoChat

CallIdle ==
  /\ pc = "idle"
  /\ op = "none"
  /\ req = NoReq
  /\ timerArmed = FALSE
  /\ sent = <<>>
  /\ upstream = NoUpstream
  /\ transport = NoTransport
  /\ timedOut = FALSE
  /\ inner = Pending
  /\ outcome = Pending
  /\ logs = <<>>
  /\ twinLogs = <<>>

ExtractOff ==
  /\ xpc = "off"
  /\ xtext = <<>>
  /\ xfallback = EmptyMap
  /\ xmatch = NoMatch
  /\ xresult = Interpreted(EmptyMap)

\* the process has started; the service is not constructed yet
Init ==
  /\ env \in Envs
  /\ instance = "unbuilt"
  /\ config = NoConfig
  /\ CallIdle
  /\ ExtractOff
  /\ calls = NoCalls
  /\ WebOff
  /\ AuthOff
  /\ CtlOff
  /\ SyncOff
  /\ ChatOff

\* ----------------------------------------------------------------- actions
\* the same instance with the other of the two keys
TwinConfig(cfg) ==
  [cfg EXCEPT !.apiKey = IF cfg.apiKey = "sk-or-v1-key" THEN "sk-or-v1-other"
                         ELSE "sk-or-v1-key"]

\* the transport client writes the records Records(config); the twin run
\* writes what the same code writes under the other key
Emit(Records(_)) ==
  /\ logs' = logs \o Records(config)
  /\ twinLogs' = twinLogs \o Records(TwinConfig(config))

\* makeRequest settles with tr and the facade operation runs to its end:
\* nothing awaits between the two
Settle(tr) ==
  /\ pc' = "done"
  /\ transport' = tr
  /\ inner' = InnerCall(op, tr)
  /\ outcome' = Facade(config, op, req, tr)

\* new AIService() (lines 51-59): the fields are set from the environment;
\* without a key the constructor throws and there is no instance
New ==
  /\ instance = "unbuilt"
  /\ instance' = IF Construct(env).ok THEN "built" ELSE "threw"
  /\ config' = [apiKey |-> Construct(env).apiKey, model |-> Construct(env).model,
                baseUrl |-> Construct(env).baseUrl]
  /\ UNCHANGED <<env, pc, op, req, timerArmed, sent, upstream, transport, timedOut,
                 inner, outcome, logs, twinLogs, extVars, concVars, webVars, moreVars>>

\* a facade operation is called: it builds its messages and makeRequest
\* writes the request record, arms the timer and posts the request
\* (lines 65-94)
BeginCall(o, r) ==
  /\ instance = "built"
  /\ pc = "idle"
  /\ pc' = "awaitFetch"
  /\ op' = o
  /\ req' = r
  /\ timerArmed' = TRUE
  /\ sent' = Post(sent, RequestBody(config, MessagesOf(o, r), OptionsOf(o, r)))
  /\ Emit(LAMBDA cfg : <<RequestLog(cfg, MessagesOf(o, r),
                                     RequestBody(cfg, MessagesOf(o, r), OptionsOf(o, r)))>>)
  /\ UNCHANGED <<cfgVars, upstream, transport, timedOut, inner, outcome, extVars, concVars, webVars>>

\* the operation is called directly
Begin(o, r) == BeginCall(o, r) /\ UNCHANGED moreVars

\* the timer fires while fetch is pending: controller.abort() rejects fetch
TimerAbort ==
  /\ timerArmed
  /\ pc = "awaitFetch"
  /\ timerArmed' = FALSE
  /\ timedOut' = TRUE
  /\ Settle(TransportFailed(MakeRequestCatch(AbortError)))
  /\ Emit(LAMBDA cfg : <<FailureLog(cfg, AbortError)>>)
  /\ UNCHANGED <<cfgVars, op, req, sent, upstream, extVars, concVars, webVars, moreVars>>

\* the timer of a call whose fetch was rejected was not cleared; when it
\* fires, abort() finds nothing pending
TimerStale ==
  /\ timerArmed
  /\ pc = "done"
  /\ timerArmed' = FALSE
  /\ UNCHANGED <<cfgVars, pc, op, req, sent, upstream, transport, timedOut, inner,
                 outcome, logs, twinLogs, extVars, concVars, webVars, moreVars>>

\* fetch rejects with a connection-level error
FetchReject(code) ==
  /\ pc = "awaitFetch"
  /\ Settle(TransportFailed(MakeRequestCatch(NetworkError(code))))
  /\ upstream' = [upstream EXCEPT !.failure = code]
  /\ Emit(LAMBDA cfg : <<FailureLog(cfg, NetworkError(code))>>)
  /\ UNCHANGED <<cfgVars, op, req, timerArmed, sent, timedOut, extVars, concVars, webVars, moreVars>>

\* the response headers arrive: fetch resolves, the timer is cleared and
\* the body is awaited (response.text() or response.json())
FetchResolve(status) ==
  /\ pc = "awaitFetch"
  /\ pc' = "awaitBody"
  /\ timerArmed' = FALSE
  /\ upstream' = [upstream EXCEPT !.status = status]
  /\ UNCHANGED <<cfgVars, op, req, sent, transport, timedOut, inner, outcome, logs,
                 twinLogs, extVars, concVars, webVars, moreVars>>

\* the body of a response that is not ok has been read as text
BodyText(errorData) ==
  /\ pc = "awaitBody"
  /\ ~ResponseOk(upstream.status)
  /\ upstream' = [upstream EXCEPT !.body = "text"]
  /\ Settle(TransportFailed(MakeRequestCatch(UpstreamStatusError(upstream.status))))
  /\ Emit(LAMBDA cfg : <<UpstreamErrorLog(upstream.status, errorData),
                          FailureLog(cfg, UpstreamStatusError(upstream.status))>>)
  /\ UNCHANGED <<cfgVars, op, req, timerArmed, sent, timedOut, extVars, concVars, webVars, moreVars>>

\* the body of an ok response has been read and is JSON
BodyJson(data) ==
  /\ pc = "awaitBody"
  /\ ResponseOk(upstream.status)
  /\ upstream' = [upstream EXCEPT !.body = "json"]
  /\ Settle(MakeRequestReturn(data))
  /\ Emit(LAMBDA cfg : <<MakeRequestReturnLog(cfg, data)>>)
  /\ UNCHANGED <<cfgVars, op, req, timerArmed, sent, timedOut, extVars, concVars, webVars, moreVars>>

\* the body of an ok response has been read and is not JSON
BodyMalformed ==
  /\ pc = "awaitBody"
  /\ ResponseOk(upstream.status)
  /\ upstream' = [upstream EXCEPT !.body = "malformed"]
  /\ Settle(TransportFailed(MakeRequestCatch(InvalidJsonError)))
  /\ Emit(LAMBDA cfg : <<FailureLog(cfg, InvalidJsonError)>>)
  /\ UNCHANGED <<cfgVars, op, req, timerArmed, sent, timedOut, extVars, concVars, webVars, moreVars>>

\* the connection breaks while the body is read
BodyBroken ==
  /\ pc = "awaitBody"
  /\ upstream' = [upstream EXCEPT !.body = "broken"]
  /\ Settle(TransportFailed(MakeRequestCatch(BodyStreamError)))
  /\ Emit(LAMBDA cfg : <<FailureLog(cfg, BodyStreamError)>>)
  /\ UNCHANGED <<cfgVars, op, req, timerArmed, sent, timedOut, extVars, concVars, webVars, moreVars>>

\* the caller has its outcome; the next call starts from scratch
ConsumeCall ==
  /\ pc = "done"
  /\ pc' = "idle"
  /\ op' = "none"
  /\ req' = NoReq
  /\ timerArmed' = FALSE
  /\ sent' = <<>>
  /\ upstream' = NoUpstream
  /\ transport' = NoTransport
  /\ timedOut' = FALSE
  /\ inner' = Pending
  /\ outcome' = Pending
  /\ logs' = <<>>
  /\ twinLogs' = <<>>
  /\ UNCHANGED <<cfgVars, extVars, concVars, webVars>>

\* a direct caller takes its outcome
Consume == ConsumeCall /\ UNCHANGED moreVars

Next ==
  \/ New
  \/ \E o \in Ops : \E r \in Requests(o) : Begin(o, r)
  \/ TimerAbort
  \/ TimerStale
  \/ \E code \in NetworkCodes : FetchReject(code)
  \/ \E status \in Statuses : FetchResolve(status)
  \/ \E errorData \in ErrorBodies : BodyText(errorData)
  \/ \E data \in DataShapes : BodyJson(data)
  \/ BodyMalformed
  \/ BodyBroken
  \/ Consume

Spec == Init /\ [][Next]_vars

\* The timer callback is scheduled by the runtime: once armed it fires
\* unless it is cleared.  Nothing obliges the upstream to answer.
FairSpec == Spec /\ WF_vars(TimerAbort) /\ WF_vars(TimerStale) /\ WF_vars(Consume)

\* ------------------------------------------- the interpreter on its own
ExtractFallbacks ==
  {AnalysisFallback([NoReq EXCEPT !.prompt = ShortPrompt]),
   CodeFallback([NoReq EXCEPT !.prompt = ShortPrompt], <<>>)}

ExtractInit ==
  /\ env = Env("sk-or-v1-key", "", "")
  /\ instance = "built"
  /\ config = [apiKey |-> "sk-or-v1-key", model |-> DefaultModel, baseUrl |-> DefaultBaseUrl]
  /\ CallIdle
  /\ xpc = "start"
  /\ xtext \in Texts
  /\ xfallback \in ExtractFallbacks
  /\ xmatch = NoMatch
  /\ xresult = Interpreted(EmptyMap)
  /\ calls = NoCalls
  /\ WebOff
  /\ AuthOff
  /\ CtlOff
  /\ SyncOff
  /\ ChatOff

\* content.match(/\{[\s\S]*\}/)
Match ==
  /\ xpc = "start"
  /\ xpc' = "matched"
  /\ xmatch' = BraceSpan(xtext)
  /\ UNCHANGED <<svcVars, concVars, webVars, moreVars, xtext, xfallback, xresult>>

\* the parse of the match, or the fallback
Interpret ==
  /\ xpc = "matched"
  /\ xpc' = "done"
  /\ xresult' = InterpretReply(xtext, xfallback)
  /\ UNCHANGED <<svcVars, concVars, webVars, moreVars, xtext, xfallback, xmatch>>

ExtractNext == Match \/ Interpret

ExtractSpec == ExtractInit /\ [][ExtractNext]_vars

\* ------------------------------------------------ calls in flight together
\* the operations, arguments and upstream answers of the calls in flight
ConcOps == {"generateResponse", "parseApiPrompt"}
ConcRequest(o) == [NoReq EXCEPT !.prompt = ShortPrompt]
ConcStatuses == {200, 503}
ConcCodes == {"ECONNREFUSED", "ECONNRESET"}
ConcData == {Data(FALSE, TRUE, <<Choice(FALSE, TRUE, TRUE, <<Noise>>)>>),
             Data(FALSE, TRUE, <<Choice(FALSE, TRUE, TRUE, <<LB, IntentPair, RB>>)>>),
             Data(FALSE, TRUE, <<>>)}

\* the instance is constructed; no call has started
ConcInit ==
  /\ env = Env("sk-or-v1-key", "", "")
  /\ instance = "built"
  /\ config = [apiKey |-> "sk-or-v1-key", model |-> DefaultModel, baseUrl |-> DefaultBaseUrl]
  /\ CallIdle
  /\ ExtractOff
  /\ calls = NoCalls
  /\ WebOff
  /\ AuthOff
  /\ CtlOff
  /\ SyncOff
  /\ ChatOff

\* one controller for all the calls of the instance
NewController_shared(c) == 1

\* const controller = new AbortController() (line 81): one for each call
NewController(c) == c

\* the reply kept in a field of the instance, where the last call to
\* settle leaves it for every operation that runs after
OutcomeOf_shared(cfg, cs, c, tr) ==
  IF \E d \in DOMAIN cs : d # c /\ cs[d].pc = "done"
  THEN (LET d == CHOOSE d \in DOMAIN cs : d # c /\ cs[d].pc = "done"
        IN Facade(cfg, cs[c].op, cs[c].req, cs[d].transport))
  ELSE Facade(cfg, cs[c].op, cs[c].req, tr)

\* what the caller of call c gets when its makeRequest settles with tr:
\* the operation works on its own arguments and locals only
OutcomeOf(cfg, cs, c, tr) == Facade(cfg, cs[c].op, cs[c].req, tr)

\* makeRequest of call c settles with tr and its operation runs to its end
SettleCall(cfg, cs, c, tr) ==
  [cs EXCEPT ![c].pc = "done", ![c].transport = tr, ![c].outcome = OutcomeOf(cfg, cs, c, tr)]

\* the calls to settle, lowest first, when a controller aborts
RECURSIVE AbortFrom(_, _, _, _)
AbortFrom(cfg, cs, k, c) ==
  IF c \notin DOMAIN cs THEN cs
  ELSE AbortFrom(cfg,
                 IF cs[c].pc = "awaitFetch" /\ cs[c].controller = k
                 THEN SettleCall(cfg, cs, c, TransportFailed(MakeRequestCatch(AbortError)))
                 ELSE cs,
                 k, c + 1)

\* controller.abort(): every fetch pending on the signal of controller k
\* rejects with an AbortError
Abort(cfg, cs, k) == AbortFrom(cfg, cs, k, 1)

\* call c starts: the operation builds its messages, makeRequest makes its
\* controller, arms its timer and posts the request
CallBegin(c, o, r) ==
  /\ calls[c].pc = "idle"
  /\ calls' = [calls EXCEPT ![c] = [IdleCall EXCEPT !.pc = "awaitFetch", !.op = o, !.req = r,
                                                   !.timerArmed = TRUE,
                                                   !.controller = NewController(c)]]
  /\ UNCHANGED <<svcVars, extVars, webVars, moreVars>>

\* the timer of call c fires: its callback aborts the controller of call c
CallTimerAbort(c) ==
  /\ calls[c].timerArmed
  /\ calls[c].pc = "awaitFetch"
  /\ calls' = [Abort(config, calls, calls[c].controller)
                 EXCEPT ![c].timerArmed = FALSE, ![c].timedOut = TRUE]
  /\ UNCHANGED <<svcVars, extVars, webVars, moreVars>>

\* the timer of a call that is over fires: nothing is pending on its signal
\* unless another call shares the controller
CallTimerStale(c) ==
  /\ calls[c].timerArmed
  /\ calls[c].pc = "done"
  /\ calls' = [Abort(config, calls, calls[c].controller) EXCEPT ![c].timerArmed = FALSE]
  /\ UNCHANGED <<svcVars, extVars, webVars, moreVars>>

\* the fetch of call c rejects with a connection-level error
CallFetchReject(c, code) ==
  /\ calls[c].pc = "awaitFetch"
  /\ calls' = [SettleCall(config, calls, c, TransportFailed(MakeRequestCatch(NetworkError(code))))
                 EXCEPT ![c].upstream.failure = code]
  /\ UNCHANGED <<svcVars, extVars, webVars, moreVars>>

\* the response headers of call c arrive: its timer is cleared
CallFetchResolve(c, status) ==
  /\ calls[c].pc = "awaitFetch"
  /\ calls' = [calls EXCEPT ![c].pc = "awaitBody", ![c].timerArmed = FALSE,
                            ![c].upstream.status = status]
  /\ UNCHANGED <<svcVars, extVars, webVars, moreVars>>

\* the body of the response of call c, not ok, has been read as text
CallBodyText(c) ==
  /\ calls[c].pc = "awaitBody"
  /\ ~ResponseOk(calls[c].upstream.status)
  /\ calls' = [SettleCall(config, calls, c,
                          TransportFailed(MakeRequestCatch(
                            UpstreamStatusError(calls[c].upstream.status))))
                 EXCEPT ![c].upstream.body = "text"]
  /\ UNCHANGED <<svcVars, extVars, webVars, moreVars>>

\* the body of the ok response of call c has been read and is JSON
CallBodyJson(c, data) ==
  /\ calls[c].pc = "awaitBody"
  /\ ResponseOk(calls[c].upstream.status)
  /\ calls' = [SettleCall(config, calls, c, MakeRequestReturn(data))
                 EXCEPT ![c].upstream.body = "json", ![c].reply = data]
  /\ UNCHANGED <<svcVars, extVars, webVars, moreVars>>

\* the body of the ok response of call c has been read and is not JSON
CallBodyMalformed(c) ==
  /\ calls[c].pc = "awaitBody"
  /\ ResponseOk(calls[c].upstream.status)
  /\ calls' = [SettleCall(config, calls, c, TransportFailed(MakeRequestCatch(InvalidJsonError)))
                 EXCEPT ![c].upstream.body = "malformed"]
  /\ UNCHANGED <<svcVars, extVars, webVars, moreVars>>

\* the connection of call c breaks while its body is read
CallBodyBroken(c) ==
  /\ calls[c].pc = "awaitBody"
  /\ calls' = [SettleCall(config, calls, c, TransportFailed(MakeRequestCatch(BodyStreamError)))
                 EXCEPT ![c].upstream.body = "broken"]
  /\ UNCHANGED <<svcVars, extVars, webVars, moreVars>>

\* the caller of call c has its outcome and its timer is gone; a later
\* call may start in its place
CallConsume(c) ==
  /\ calls[c].pc = "done"
  /\ ~calls[c].timerArmed
  /\ calls' = [calls EXCEPT ![c] = IdleCall]
  /\ UNCHANGED <<svcVars, extVars, webVars, moreVars>>

ConcNext ==
  \E c \in CallIds :
    \/ \E o \in ConcOps : CallBegin(c, o, ConcRequest(o))
    \/ CallTimerAbort(c)
    \/ CallTimerStale(c)
    \/ \E code \in ConcCodes : CallFetchReject(c, code)
    \/ \E status \in ConcStatuses : CallFetchResolve(c, status)
    \/ CallBodyText(c)
    \/ \E data \in ConcData : CallBodyJson(c, data)
    \/ CallBodyMalformed(c)
    \/ CallBodyBroken(c)
    \/ CallConsume(c)

ConcSpec == ConcInit /\ [][ConcNext]_vars

\* ------------------------------------------------------------ the webhook
\* the result of a prisma call: done or thrown, and the table after it
DbResult(ok, rows) == [ok |-> ok, rows |-> rows]

\* another row holds the email (email is @unique)
EmailTaken(rows, email, id) ==
  \E u \in DOMAIN rows : u # id /\ rows[u].present /\ rows[u].email = email

\* prisma.user.create: throws when a unique field (clerkId, email) is
\* taken
PrismaCreate(rows, id, email, role) ==
  IF rows[id].present \/ EmailTaken(rows, email, id)
  THEN DbResult(FALSE, rows)
  ELSE DbResult(TRUE, [rows EXCEPT ![id] = Row(email, role, FALSE)])

\* prisma.user.update where clerkId: throws when no row has the clerkId
PrismaUpdate(rows, id, email, role) ==
  IF ~rows[id].present \/ EmailTaken(rows, email, id)
  THEN DbResult(FALSE, rows)
  ELSE DbResult(TRUE, [rows EXCEPT ![id].email = email, ![id].role = role])

\* prisma.user.update of lastLoginAt
PrismaUpdateLogin(rows, id) ==
  IF ~rows[id].present
  THEN DbResult(FALSE, rows)
  ELSE DbResult(TRUE, [rows EXCEPT ![id].lastLoginAt = TRUE])

\* prisma.user.delete where clerkId: throws when no row has the clerkId
PrismaDelete(rows, id) ==
  IF ~rows[id].present
  THEN DbResult(FALSE, rows)
  ELSE DbResult(TRUE, [rows EXCEPT ![id] = NoRow])

\* userData.email_addresses[0]?.email_address || ''
FirstEmail(data) ==
  IF data.email_addresses = <<>> THEN "" ELSE data.email_addresses[1]

\* userData.public_metadata?.role || 'user'
MetaRole(data) == OrString(data.role, "user")

\* a handler that lets the failure out
Swallow_rethrow(result) ==
  [threw |-> ~result.ok, failed |-> ~result.ok, rows |-> result.rows]

\* the try and catch of each handler: a failure is logged and the handler
\* returns; the table is as prisma left it
Swallow(result) == [threw |-> FALSE, failed |-> ~result.ok, rows |-> result.rows]

\* without data, or without the id in it, the handler fails inside its
\* try before or in the prisma call
Known(data) == data.id \in ClerkIds

handleUserCreated(rows, data) ==
  Swallow(IF ~Known(data) THEN DbResult(FALSE, rows)
          ELSE PrismaCreate(rows, data.id, FirstEmail(data), MetaRole(data)))
handleUserUpdated(rows, data) ==
  Swallow(IF ~Known(data) THEN DbResult(FALSE, rows)
          ELSE PrismaUpdate(rows, data.id, FirstEmail(data), MetaRole(data)))
handleUserDeleted(rows, data) ==
  Swallow(IF ~Known(data) THEN DbResult(FALSE, rows) ELSE PrismaDelete(rows, data.id))
handleSessionCreated(rows, data) ==
  Swallow(IF ~Known(data) THEN DbResult(FALSE, rows) ELSE PrismaUpdateLogin(rows, data.id))
handleSessionEnded(rows, data) == Swallow(DbResult(TRUE, rows))

HandledTypes == UserEventTypes \cup {"session.created", "session.ended"}

\* the switch of handleWebhook; the default branch only logs
Dispatch(rows, ev) ==
  CASE ev.type = "user.created" -> handleUserCreated(rows, ev)
    [] ev.type = "user.updated" -> handleUserUpdated(rows, ev)
    [] ev.type = "user.deleted" -> handleUserDeleted(rows, ev)
    [] ev.type = "session.created" -> handleSessionCreated(rows, ev)
    [] ev.type = "session.ended" -> handleSessionEnded(rows, ev)
    [] OTHER -> [threw |-> FALSE, failed |-> FALSE, rows |-> rows]

WebInit ==
  /\ env = Env("sk-or-v1-key", "", "")
  /\ instance = "built"
  /\ config = [apiKey |-> "sk-or-v1-key", model |-> DefaultModel, baseUrl |-> DefaultBaseUrl]
  /\ CallIdle
  /\ ExtractOff
  /\ calls = NoCalls
  /\ WebOff
  /\ AuthOff
  /\ CtlOff
  /\ SyncOff
  /\ ChatOff

\* POST /api/auth/webhook: the route hands the request to handleWebhook,
\* which dispatches on the type and answers 200, or rethrows what a
\* handler threw and errorHandler answers; signed tells whether the
\* request bears a signature valid for CLERK_WEBHOOK_SECRET
HandleWebhook(ev, signed) ==
  /\ db' = Dispatch(db, ev).rows
  /\ webhook' = [signed |-> signed, changed |-> db' # db,
                 failed |-> Dispatch(db, ev).failed,
                 unhandled |-> ev.type \notin HandledTypes,
                 status |-> IF Dispatch(db, ev).threw THEN ErrorStatus(PrismaError)
                            ELSE 200]
  /\ lastUserEvent' = IF ev.type \in UserEventTypes /\ Known(ev)
                       THEN [lastUserEvent EXCEPT ![ev.id] = ev]
                       ELSE lastUserEvent
  /\ UNCHANGED <<svcVars, extVars, concVars, moreVars>>

WebNext == \E ev \in WebhookEvents : \E signed \in BOOLEAN : HandleWebhook(ev, signed)

WebSpec == WebInit /\ [][WebNext]_vars

\* ------------------------------------------------------- the auth middlewares
\* the Authorization headers, as 'Bearer ' and the token
SessionTokens == {"tok_1", "tok_2", "tok_bad"}
AuthHeaders == {<<>>, <<"Basic ", "abc">>} \cup {<<"Bearer ", t>> : t \in SessionTokens}

\* authHeader && authHeader.startsWith('Bearer ')
IsBearer(header) == header # <<>> /\ header[1] = "Bearer "
\* authHeader.substring(7)
BearerToken(header) == IF Len(header) >= 2 THEN header[2] ELSE ""

\* the user a session token was issued to, at the identity provider
TokenUser(token) ==
  CASE token = "tok_1" -> "user_1"
    [] token = "tok_2" -> "user_2"
    [] OTHER -> ""
ClerkEmail(u) == IF u = "user_1" THEN "a@x.io" ELSE "b@x.io"

\* what clerkClient.sessions.verifySession resolves with: a session, a
\* session without userId, or nothing; a session names a user only for a
\* token issued to that user
Session(userId) == [defined |-> TRUE, userId |-> userId, id |-> "sess_1"]
NoSession == [defined |-> FALSE, userId |-> "", id |-> ""]
Sessions(token) ==
  {NoSession, Session("")}
  \cup (IF TokenUser(token) # "" THEN {Session(TokenUser(token))} ELSE {})
AllSessions == UNION {Sessions(t) : t \in SessionTokens}

\* what the Clerk SDK rejects with
ClerkErrors ==
  {ClerkFailure(401, <<"Unauthorized">>),
   ClerkFailure(404, <<"The ", "session", " could not be found">>),
   ClerkFailure(0, <<"fetch failed">>)}

\* error.message?.includes('session')
Includes(message, word) == \E i \in DOMAIN message : message[i] = word

\* the routes behind authenticate, the roles authorize is mounted with on
\* them, and a route behind optionalAuth
AuthRoutes == {"/api/users", "/api/auth/me", "/api/auth/metadata"}
OptionalRoute == "/optional"
RouteRoles(route) == IF route = "/api/users" THEN {"admin"} ELSE {}
HasAuthorize(route) == route = "/api/users"
\* req.body.publicMetadata.role of PUT /api/auth/metadata ("" when absent)
MetadataRoles == {"", "admin"}

\* a catch that hands the error on as it was thrown
AuthenticateCatch_keep(error) == createError(error.message, error.statusCode)

\* the catch of authenticate (lines 123-131)
AuthenticateCatch(error) ==
  IF error.status = 401 \/ Includes(error.message, "session")
  THEN createError(<<"Invalid or expired ", "session">>, 401)
  ELSE createError(<<"Authentication failed">>, 401)

\* an authorize that looks at the user only
Authorize_any(roles, user) ==
  IF ~user.set THEN createError(<<"Authentication required">>, 401)
  ELSE NoError

\* authorize(...roles): the error it passes to next, or none (lines 137-149)
Authorize(roles, user) ==
  IF ~user.set THEN createError(<<"Authentication required">>, 401)
  ELSE IF user.role \notin roles THEN createError(<<"Insufficient permissions">>, 403)
  ELSE NoError

\* the middleware calls next(err) and the error handler answers
NextError(r, err) ==
  [r EXCEPT !.pc = "done", !.nextCalls = @ + 1, !.nextErr = err]

\* the middleware calls next(): authorize runs where it is mounted, then
\* the route handler; the handler of PUT /api/auth/metadata awaits Clerk
NextOk(r) ==
  LET n == [r EXCEPT !.nextCalls = @ + 1]
      e == Authorize(RouteRoles(r.route), n.user)
  IN IF HasAuthorize(r.route) /\ e # NoError
     THEN [n EXCEPT !.pc = "done", !.authzCalls = @ + 1, !.authzErr = e]
     ELSE [n EXCEPT !.pc = IF r.route = "/api/auth/metadata" /\ n.user.set
                           THEN "handler" ELSE "done",
                    !.authzCalls = IF HasAuthorize(r.route) THEN @ + 1 ELSE @,
                    !.handlerRan = TRUE]

\* an optionalAuth that rejects what it cannot verify
OptionalAuthCatch_reject(r, error) ==
  NextError(r, createError(<<"Invalid or expired ", "session">>, 401))

\* optionalAuth ignores what Clerk throws and goes on (lines 197-203)
OptionalAuthCatch(r, error) == NextOk(r)

\* something is thrown inside the try of the middleware
Throw(r, error) ==
  IF r.mw = "authenticate"
  THEN NextError([r EXCEPT !.raised = error], AuthenticateCatch(error))
  ELSE OptionalAuthCatch([r EXCEPT !.raised = error], error)

AuthInit ==
  /\ env = Env("sk-or-v1-key", "", "")
  /\ instance = "built"
  /\ config = [apiKey |-> "sk-or-v1-key", model |-> DefaultModel, baseUrl |-> DefaultBaseUrl]
  /\ CallIdle
  /\ ExtractOff
  /\ calls = NoCalls
  /\ WebOff
  /\ clerk \in [ClerkIds -> MetadataRoles]
  /\ clerkSecret \in {"", "sk_test_1"}
  /\ areq = NoRequest
  /\ CtlOff
  /\ SyncOff
  /\ ChatOff

notAuth == <<svcVars, extVars, concVars, webVars, ctlVars, syncVars, chatVars>>

\* authenticate up to its first await (lines 78-94); the request before
\* it has been answered
Authenticate(route, header, body) ==
  /\ areq.pc \in {"idle", "done"}
  /\ LET r == [NoRequest EXCEPT !.mw = "authenticate", !.route = route, !.header = header,
                                !.body = body]
     IN areq' =
          IF ~IsBearer(header)
          THEN Throw(r, Thrown(createError(<<"Access token required">>, 401)))
          ELSE IF clerkSecret = ""
          THEN Throw(r, Thrown(createError(<<"Clerk secret key not configured">>, 500)))
          ELSE [r EXCEPT !.pc = "verifySession", !.token = BearerToken(header)]
  /\ UNCHANGED <<clerk, clerkSecret, notAuth>>

\* optionalAuth up to its first await (lines 160-174)
OptionalAuth(header) ==
  /\ areq.pc \in {"idle", "done"}
  /\ LET r == [NoRequest EXCEPT !.mw = "optionalAuth", !.route = OptionalRoute,
                                !.header = header]
     IN areq' =
          IF ~IsBearer(header) THEN NextOk(r)
          ELSE IF clerkSecret = "" THEN NextOk(r)
          ELSE [r EXCEPT !.pc = "verifySession", !.token = BearerToken(header)]
  /\ UNCHANGED <<clerk, clerkSecret, notAuth>>

\* verifySession resolves
VerifyResolve(session) ==
  /\ areq.pc = "verifySession"
  /\ session \in Sessions(areq.token)
  /\ areq' =
       IF session.defined /\ session.userId # ""
       THEN [areq EXCEPT !.pc = "getUser", !.verified = TRUE,
                         !.auth = AuthInfo(session.userId, session.id)]
       ELSE IF areq.mw = "authenticate"
       THEN Throw(areq, Thrown(createError(<<"Invalid ", "session">>, 401)))
       ELSE NextOk(areq)
  /\ UNCHANGED <<clerk, clerkSecret, notAuth>>

\* verifySession or getUser rejects
ClerkReject(error) ==
  /\ areq.pc \in {"verifySession", "getUser"}
  /\ areq' = Throw([areq EXCEPT !.auth = NoAuth], error)
  /\ UNCHANGED <<clerk, clerkSecret, notAuth>>

\* getUser resolves: req.user and req.auth are set and next() is called
GetUserResolve ==
  /\ areq.pc = "getUser"
  /\ areq' = NextOk([areq EXCEPT !.user = UserInfo(areq.auth.userId,
                                                    ClerkEmail(areq.auth.userId),
                                                    OrString(clerk[areq.auth.userId], "user"))])
  /\ UNCHANGED <<clerk, clerkSecret, notAuth>>

\* authorize(...roles) called with a request as any earlier middleware may
\* have left it
AuthorizeAlone(roles, user) ==
  /\ areq.pc \in {"idle", "done"}
  /\ areq' = [NoRequest EXCEPT !.pc = "done", !.mw = "authorize", !.roles = roles,
                               !.user = user, !.authzCalls = 1,
                               !.authzErr = Authorize(roles, user),
                               !.handlerRan = (Authorize(roles, user) = NoError)]
  /\ UNCHANGED <<clerk, clerkSecret, notAuth>>

\* updateUserMetadata: clerkClient.users.updateUser(req.user.id,
\* {publicMetadata: publicMetadata || {}}) resolves (lines 407-413)
UpdateUserMetadata ==
  /\ areq.pc = "handler"
  /\ areq.route = "/api/auth/metadata"
  /\ clerk' = [clerk EXCEPT ![areq.user.id] = areq.body]
  /\ areq' = [areq EXCEPT !.pc = "done"]
  /\ UNCHANGED <<clerkSecret, notAuth>>

\* the identity provider changes a role itself (its dashboard, its API)
ClerkSetsRole(u, role) ==
  /\ clerk[u] # role
  /\ clerk' = [clerk EXCEPT ![u] = role]
  /\ UNCHANGED <<clerkSecret, areq, notAuth>>

SomeUsers == {NoUser, UserInfo("user_1", "a@x.io", "user"), UserInfo("user_2", "b@x.io", "admin")}

AuthNext ==
  \/ \E route \in AuthRoutes : \E header \in AuthHeaders :
       \E body \in (IF route = "/api/auth/metadata" THEN MetadataRoles ELSE {""}) :
         Authenticate(route, header, body)
  \/ \E header \in AuthHeaders : OptionalAuth(header)
  \/ \E session \in AllSessions : VerifyResolve(session)
  \/ \E error \in ClerkErrors : ClerkReject(error)
  \/ GetUserResolve
  \/ \E roles \in {{"admin"}, {"admin", "user"}} : \E user \in SomeUsers :
       AuthorizeAlone(roles, user)
  \/ UpdateUserMetadata
  \/ \E u \in ClerkIds : \E role \in MetadataRoles : ClerkSetsRole(u, role)

AuthSpec == AuthInit /\ [][AuthNext]_vars

\* ------------------------------------------------------------ AIController
CtlRoutes == {"/generate-response", "/parse-prompt", "/generate-api-code"}
CtlBodies == {NoField, Field(<<>>)} \cup {Field(p) : p \in Prompts}

\* the facade operation each handler calls
RouteOp(route) ==
  CASE route = "/generate-response" -> "generateResponse"
    [] route = "/parse-prompt" -> "parseApiPrompt"
    [] OTHER -> "generateApiCode"

\* a check that lets the empty string through
Falsy_absent(field) == ~field.present

\* !prompt, !description: absent or the empty string
Falsy(field) == ~field.present \/ field.text = <<>>

\* the status the handler ends with: 200 with the result, or the status of
\* the error it rethrows
ResponseStatus(result) ==
  IF result.kind = "returned" THEN 200 ELSE ErrorStatus(result.error)

CtlInit ==
  /\ env = Env("sk-or-v1-key", "", "")
  /\ instance = "built"
  /\ config = [apiKey |-> "sk-or-v1-key", model |-> DefaultModel, baseUrl |-> DefaultBaseUrl]
  /\ CallIdle
  /\ ExtractOff
  /\ calls = NoCalls
  /\ WebOff
  /\ AuthOff
  /\ CtlOff
  /\ SyncOff
  /\ ChatOff

\* a handler of AIController up to its await: the body is checked, and
\* the service is called when the check passes
CtlRequest(route, body) ==
  /\ ctl.pc \in {"idle", "done"}
  /\ pc = "idle"
  /\ IF Falsy(body)
     THEN /\ ctl' = [pc |-> "done", route |-> route, body |-> body, calls |-> 0,
                     status |-> ErrorStatus(createError(<<"Prompt is required">>, 400))]
          /\ UNCHANGED <<svcVars, extVars, concVars, webVars>>
     ELSE /\ ctl' = [pc |-> "calling", route |-> route, body |-> body, calls |-> 1,
                     status |-> 0]
          /\ BeginCall(RouteOp(route), [NoReq EXCEPT !.prompt = body.text])
  /\ UNCHANGED <<authVars, syncVars, chatVars>>

\* the service call settled: the handler answers 200, or rethrows and
\* errorHandler answers
CtlRespond ==
  /\ ctl.pc = "calling"
  /\ ctl' = [ctl EXCEPT !.pc = "done", !.status = ResponseStatus(outcome)]
  /\ ConsumeCall
  /\ UNCHANGED <<authVars, syncVars, chatVars>>

CtlNext ==
  \/ \E route \in CtlRoutes : \E body \in CtlBodies : CtlRequest(route, body)
  \/ TimerAbort
  \/ TimerStale
  \/ \E code \in NetworkCodes : FetchReject(code)
  \/ \E status \in Statuses : FetchResolve(status)
  \/ \E errorData \in ErrorBodies : BodyText(errorData)
  \/ \E data \in DataShapes : BodyJson(data)
  \/ BodyMalformed
  \/ BodyBroken
  \/ CtlRespond

CtlSpec == CtlInit /\ [][CtlNext]_vars

\* ---------------------------------------------------------------- sync-user
\* prisma.user.update of email, role and lastLoginAt (lines 297-300)
PrismaUpdateSync(rows, id, email, role) ==
  IF ~rows[id].present \/ EmailTaken(rows, email, id)
  THEN DbResult(FALSE, rows)
  ELSE DbResult(TRUE, [rows EXCEPT ![id] = Row(email, role, TRUE)])

\* the write following findUnique: create when no row was found, update
\* otherwise (lines 269-302)
SyncWriteResult(rows, found, user) ==
  IF found THEN PrismaUpdateSync(rows, user.id, user.email, user.role)
  ELSE PrismaCreate(rows, user.id, user.email, user.role)

\* req.user of the sync-user request of u, as authenticate sets it
SyncUser(u) == UserInfo(u, ClerkEmail(u), OrString(clerk[u], "user"))

\* the user.created events Clerk sends for its users
SyncEvents ==
  {Event("user.created", u, <<ClerkEmail(u)>>, "") : u \in ClerkIds}

SyncInit ==
  /\ env = Env("sk-or-v1-key", "", "")
  /\ instance = "built"
  /\ config = [apiKey |-> "sk-or-v1-key", model |-> DefaultModel, baseUrl |-> DefaultBaseUrl]
  /\ CallIdle
  /\ ExtractOff
  /\ calls = NoCalls
  /\ WebOff
  /\ AuthOff
  /\ CtlOff
  /\ SyncOff
  /\ ChatOff

\* syncUserToDatabase up to the end of its first await: findUnique has
\* answered (lines 258-267)
SyncFind(i, u) ==
  /\ syncs[i].pc \in {"idle", "done"}
  /\ syncs' = [syncs EXCEPT ![i] = [NoSync EXCEPT !.pc = "found", !.user = u,
                                                  !.found = db[u].present]]
  /\ UNCHANGED <<svcVars, extVars, concVars, webVars, authVars, ctlVars, chatVars>>

\* the create or update settles: 200 with the row, or the error is
\* rethrown and errorHandler answers (lines 269-314)
SyncWrite(i) ==
  /\ syncs[i].pc = "found"
  /\ LET res == SyncWriteResult(db, syncs[i].found, SyncUser(syncs[i].user))
     IN /\ db' = res.rows
        /\ syncs' = [syncs EXCEPT ![i].pc = "done",
                                  ![i].status = IF res.ok THEN 200
                                                ELSE ErrorStatus(PrismaError),
                                  ![i].row = IF res.ok THEN res.rows[syncs[i].user]
                                             ELSE NoRow]
  /\ UNCHANGED <<svcVars, extVars, concVars, webhook, lastUserEvent, authVars, ctlVars,
                 chatVars>>

SyncNext ==
  \/ \E i \in SyncIds : \E u \in ClerkIds : SyncFind(i, u)
  \/ \E i \in SyncIds : SyncWrite(i)
  \/ \E ev \in SyncEvents : \E signed \in BOOLEAN : HandleWebhook(ev, signed)

SyncSpec == SyncInit /\ [][SyncNext]_vars

\* ------------------------------------------------------- the chat component
\* what the user may have typed, and input.trim()
Inputs == {"", " ", "hi", " yo "}
Trim(x) ==
  CASE x = " " -> ""
    [] x = " yo " -> "yo"
    [] OTHER -> x

ChatMessage(role, content) == [role |-> role, content |-> content]

\* the parsed body of an OK response: null, or an object that may hold
\* data.response and response ("" when absent)
Json(isNull, nested, flat) == [isNull |-> isNull, nested |-> nested, flat |-> flat]
JsonBodies ==
  {Json(TRUE, "", ""), Json(FALSE, "", ""), Json(FALSE, "nested reply", ""),
   Json(FALSE, "", "flat reply"), Json(FALSE, "nested reply", "flat reply")}

\* data.data?.response || data.response || 'No response received'
ReplyText(data) ==
  IF data.nested # "" THEN data.nested
  ELSE IF data.flat # "" THEN data.flat
  ELSE "No response received"

\* a guard that lets every submit through
Accept_always(view) == TRUE

\* the guard of the handler, on the values of its render:
\* !(!input.trim() || isLoading)
Accept(view) == Trim(view.input) # "" /\ ~view.isLoading

\* a handler without its finally block
Finally_skip(c) == c

\* finally { setIsLoading(false) }
Finally(c) == [c EXCEPT !.isLoading = FALSE]

\* catch { setError(err.message) } and the finally block
Catch(c, message) == Finally([c EXCEPT !.error = ErrorText(message)])

\* the component renders: the handlers of the next event see the state
Rendered(c) == [c EXCEPT !.view = [input |-> c.input, isLoading |-> c.isLoading]]

HttpErrorMessage(status) == <<"HTTP error! status: ", StatusText(status)>>

ChatInit ==
  /\ env = Env("sk-or-v1-key", "", "")
  /\ instance = "built"
  /\ config = [apiKey |-> "sk-or-v1-key", model |-> DefaultModel, baseUrl |-> DefaultBaseUrl]
  /\ CallIdle
  /\ ExtractOff
  /\ calls = NoCalls
  /\ WebOff
  /\ AuthOff
  /\ CtlOff
  /\ SyncOff
  /\ ChatOff

notChat == <<svcVars, extVars, concVars, webVars, authVars, ctlVars, syncVars>>

\* onChange: setInput(e.target.value); the disabled attribute of the
\* field is not relied on
Type(x) ==
  /\ x # chat.input
  /\ chat' = Rendered([chat EXCEPT !.input = x, !.event = "type"])
  /\ UNCHANGED notChat

\* a submit event (the button, or Enter in the field): the handler up to
\* its await of fetch
Submit ==
  /\ Len(chat.messages) + 2 <= MaxMessages
  /\ chat' =
       IF Accept(chat.view)
       THEN Rendered([chat EXCEPT
              !.messages = Append(@, ChatMessage("user", Trim(chat.view.input))),
              !.input = "",
              !.isLoading = TRUE,
              !.error = NoErrorText,
              !.fetching = @ + 1,
              !.event = "accepted",
              !.last = [NoLast EXCEPT !.kind = "pending", !.base = Len(chat.messages)]])
       ELSE [chat EXCEPT !.event = "ignored"]
  /\ UNCHANGED notChat

\* fetch rejects: the catch and the finally block run
ChatFetchReject ==
  /\ chat.fetching > 0
  /\ chat' = Catch([chat EXCEPT !.fetching = @ - 1, !.event = "settled",
                                !.last.kind = "settled"],
                   <<"Failed to fetch">>)
  /\ UNCHANGED notChat

\* fetch resolves: a response that is not ok is thrown as an error, the
\* body of an ok response is awaited
ChatFetchResolve(status) ==
  /\ chat.fetching > 0
  /\ chat' =
       IF ResponseOk(status)
       THEN [chat EXCEPT !.fetching = @ - 1, !.reading = @ + 1, !.event = "response",
                         !.last.ok = TRUE]
       ELSE Catch([chat EXCEPT !.fetching = @ - 1, !.event = "settled",
                               !.last.kind = "settled"],
                  HttpErrorMessage(status))
  /\ UNCHANGED notChat

\* response.json() resolves: the assistant message is appended, unless
\* reading a property of null throws
ChatJson(data) ==
  /\ chat.reading > 0
  /\ chat' =
       IF data.isNull
       THEN Catch([chat EXCEPT !.reading = @ - 1, !.event = "settled",
                               !.last.kind = "settled", !.last.body = "null"],
                  <<"Cannot read properties of null">>)
       ELSE Finally([chat EXCEPT
              !.messages = Append(@, ChatMessage("assistant", ReplyText(data))),
              !.reading = @ - 1, !.event = "settled",
              !.last.kind = "settled", !.last.body = "json"])
  /\ UNCHANGED notChat

\* response.json() rejects: the body is not JSON
ChatJsonThrow ==
  /\ chat.reading > 0
  /\ chat' = Catch([chat EXCEPT !.reading = @ - 1, !.event = "settled",
                                !.last.kind = "settled", !.last.body = "malformed"],
                   <<"Unexpected token">>)
  /\ UNCHANGED notChat

\* the component renders the state set after an await
Render ==
  /\ chat # Rendered(chat)
  /\ chat' = Rendered(chat)
  /\ UNCHANGED notChat

ChatSettle ==
  \/ ChatFetchReject
  \/ \E status \in ConcStatuses : ChatFetchResolve(status)
  \/ \E data \in JsonBodies : ChatJson(data)
  \/ ChatJsonThrow

ChatNext ==
  \/ \E x \in Inputs : Type(x)
  \/ Submit
  \/ ChatFetchReject
  \/ \E status \in ConcStatuses : ChatFetchResolve(status)
  \/ \E data \in JsonBodies : ChatJson(data)
  \/ ChatJsonThrow
  \/ Render

ChatSpec == ChatInit /\ [][ChatNext]_vars

\* fetch and response.json() settle in the end
FairChatSpec == ChatSpec /\ WF_vars(ChatSettle)

\* -------------------------------------------------------------- properties
AnalysisFields == {"intent", "suggestedEndpoint", "suggestedMethod", "parameters",
                   "complexity"}
ArtifactFields == {"endpoint", "method", "controllerCode", "serviceCode", "schema"}

\* the text at choices[0].message.content, '' when the path is empty or absent
FirstChoiceText(data) ==
  IF /\ ~data.isNull
     /\ data.hasChoices
     /\ Len(data.choices) > 0
     /\ ~data.choices[1].isNull
     /\ data.choices[1].hasMessage
     /\ data.choices[1].hasContent
  THEN data.choices[1].content
  ELSE <<>>

\* the span from the first "{" to the last "}" of a text
Positions(text, tok) == {i \in 1..Len(text) : text[i] = tok}
FirstPos(text, tok) == CHOOSE i \in Positions(text, tok) : \A k \in Positions(text, tok) : i <= k
LastPos(text, tok) == CHOOSE i \in Positions(text, tok) : \A k \in Positions(text, tok) : i >= k
FirstToLast(text) ==
  IF /\ Positions(text, LB) # {}
     /\ Positions(text, RB) # {}
     /\ FirstPos(text, LB) < LastPos(text, RB)
  THEN [found |-> TRUE, text |-> SubSeq(text, FirstPos(text, LB), LastPos(text, RB))]
  ELSE NoMatch

\* the call is over and its operation got a reply whose content it read
GotReply == pc = "done" /\ transport.state = "ok" /\ transport.data.hasChoices
TheContent == FirstChoiceText(transport.data)
TheFallback ==
  IF op = "parseApiPrompt" THEN AnalysisFallback(req) ELSE CodeFallback(req, TheContent)

\* C1: a parseApiPrompt call that returns yields an object with all five
\* analysis fields, and a generateApiCode call that returns yields an object
\* with all five artifact fields, whatever the reply content.
C1_AlwaysFullyPopulated ==
  (pc = "done" /\ outcome.kind = "returned") =>
    /\ op = "parseApiPrompt" => \A f \in AnalysisFields : HasField(outcome.obj, f)
    /\ op = "generateApiCode" => \A f \in ArtifactFields : HasField(outcome.obj, f)

\* C2: when the upstream status is not a success status, the failure
\* makeRequest raises carries the upstream status code.
C2_FailureCarriesUpstreamStatus ==
  (pc = "done" /\ upstream.body = "text") =>
    /\ transport.state = "failed"
    /\ transport.error.statusCode = upstream.status

\* C3: in every phase of the round trip (waiting for the headers, reading
\* the body) a stalled upstream is cut off by the timer, so every
\* makeRequest call eventually completes.
C3_RoundTripBounded == (pc \in {"awaitFetch", "awaitBody"}) ~> (pc = "done")

\* C4: when the timer fires before the upstream has responded, the call
\* rejects with the timeout failure, which reaches the awaiting caller (the
\* catch of makeRequest and then the facade operation); it is never a
\* successful result.
C4_TimeoutIsHandledFailure ==
  timedOut =>
    /\ pc = "done"
    /\ upstream = NoUpstream
    /\ transport = TransportFailed(createError(<<CommPrefix>> \o TimeoutMsg, 500))
    /\ op \in ThrowingOps => outcome = Rejected(transport.error)
    /\ op = "testConnection" =>
         /\ inner = Rejected(transport.error)
         /\ outcome.kind = "returned"
         /\ ~outcome.conn.success
         /\ outcome.conn.response = <<CommPrefix>> \o TimeoutMsg

C4_Witness == timedOut /\ pc = "done" /\ op = "parseApiPrompt"

\* C5: in parseApiPrompt and generateApiCode, when the reply content holds
\* no brace span, or the span from the first "{" to the last "}" is not
\* valid JSON, the operation returns its fallback and does not throw.
C5_FallbackOnNoParse ==
  (/\ GotReply
   /\ op \in ParsingOps
   /\ \/ ~FirstToLast(TheContent).found
      \/ ~JSONParse(FirstToLast(TheContent).text).ok) =>
    outcome = ReturnedObj(TheFallback)

C5_Witness ==
  /\ GotReply
  /\ op = "generateApiCode"
  /\ FirstToLast(TheContent).found
  /\ ~JSONParse(FirstToLast(TheContent).text).ok
  /\ outcome.kind = "returned"

\* C6: when the span from the first "{" to the last "}" parses as JSON,
\* parseApiPrompt and generateApiCode return exactly the parsed value; no
\* field of the fallback is added to it.
C6_ParsedReturnedVerbatim ==
  (/\ GotReply
   /\ op \in ParsingOps
   /\ FirstToLast(TheContent).found
   /\ JSONParse(FirstToLast(TheContent).text).ok) =>
    /\ outcome = ReturnedObj(JSONParse(FirstToLast(TheContent).text).val)
    /\ \A p \in DOMAIN TheFallback :
         HasField(outcome.obj, p[1]) =>
           HasField(JSONParse(FirstToLast(TheContent).text).val, p[1])

C6_Witness ==
  /\ GotReply
  /\ op = "parseApiPrompt"
  /\ FirstToLast(TheContent).found
  /\ JSONParse(FirstToLast(TheContent).text).ok
  /\ HasField(outcome.obj, "intent")
  /\ ~HasField(outcome.obj, "suggestedEndpoint")

\* C7: the JSON candidate of a text is the single span from its first "{"
\* to its last "}": what lies outside is dropped, and with two separate
\* objects the span runs over both and what is between them; that one span
\* is what is parsed.
C7_SpanFirstToLast ==
  /\ xpc \in {"matched", "done"} => xmatch = FirstToLast(xtext)
  /\ xpc = "done" =>
       xresult = IF FirstToLast(xtext).found /\ JSONParse(FirstToLast(xtext).text).ok
                 THEN Interpreted(JSONParse(FirstToLast(xtext).text).val)
                 ELSE Interpreted(xfallback)

C7_Witness ==
  /\ xpc = "done"
  /\ Len(xtext) = 5
  /\ JSONParse(SubSeq(xtext, 1, 2)).ok
  /\ xtext[3] = Noise
  /\ JSONParse(SubSeq(xtext, 4, 5)).ok
  /\ xmatch = [found |-> TRUE, text |-> xtext]
  /\ xresult = Interpreted(xfallback)

\* C8: generateResponse returns choices[0].message.content when that text is
\* present and not empty, and 'No response generated' whenever the path is
\* empty or absent (choices missing included); it does not fail then.
C8_ContentOrDefault ==
  (pc = "done" /\ op = "generateResponse" /\ transport.state = "ok") =>
    outcome = ReturnedText(IF FirstChoiceText(transport.data) # <<>>
                           THEN FirstChoiceText(transport.data)
                           ELSE NoResponse)

\* C9: when the upstream request of generateResponse, parseApiPrompt or
\* generateApiCode failed, the call rejects, and with the very error
\* makeRequest threw; it never returns a value.
C9_TransportFailurePropagates ==
  (pc = "done" /\ op \in ThrowingOps /\ transport.state = "failed") =>
    outcome = Rejected(transport.error)

C9_Witness ==
  /\ pc = "done"
  /\ op = "generateResponse"
  /\ transport.state = "failed"
  /\ upstream.status = 503
  /\ outcome.kind = "rejected"

\* C10: testConnection never fails: it returns success = true with the reply
\* text when generateResponse returned, success = false with the failure's
\* message when generateResponse threw, and the configured model id always.
C10_TestConnectionNeverFails ==
  (pc = "done" /\ op = "testConnection") =>
    /\ outcome.kind = "returned"
    /\ outcome.conn.model = config.model
    /\ inner.kind \in {"returned", "rejected"}
    /\ inner.kind = "returned" =>
         outcome.conn.success /\ outcome.conn.response = inner.text
    /\ inner.kind = "rejected" =>
         ~outcome.conn.success /\ outcome.conn.response = inner.error.message

C10_Witness ==
  /\ pc = "done"
  /\ op = "testConnection"
  /\ inner.kind = "rejected"
  /\ ~outcome.conn.success

\* C11: a call of a facade operation issues exactly one upstream request,
\* whatever its outcome; nothing is sent again after a failure.
C11_ExactlyOneRequest ==
  /\ pc = "idle" => sent = <<>>
  /\ pc \in {"awaitFetch", "awaitBody", "done"} => Len(sent) = 1

C11_Witness ==
  /\ pc = "done"
  /\ upstream.status = 503
  /\ transport.state = "failed"
  /\ Len(sent) = 1

\* the kind of a failure as its caller can tell it: by the message the
\* catch block gives it, or by the mark of a malformed response
FailureKind(error) ==
  IF error.message = <<CommPrefix>> \o TimeoutMsg THEN "Timeout"
  ELSE IF error.message = <<CommPrefix>> \o NetworkMsg THEN "NetworkUnreachable"
  ELSE IF Len(error.message) >= 2 /\ error.message[2] = "AI service error: "
       THEN "UpstreamError"
  ELSE IF error.name = "MalformedResponse" THEN "MalformedResponse"
  ELSE "Other"

Chunks(record) ==
  {record.meta[f][k] : <<f, k>> \in {<<f2, k2>> \in (DOMAIN record.meta) \X (1..400) :
                                      k2 \in DOMAIN record.meta[f2]}}

\* C14: no record of the transport client holds the API key; the run with
\* the other key writes the same records, and the key shows only as 'SET'.
C14_LogsHideApiKey ==
  /\ logs = twinLogs
  /\ \A i \in DOMAIN logs :
       /\ config.apiKey \notin Chunks(logs[i])
       /\ logs[i].text # config.apiKey
       /\ "apiKey" \in DOMAIN logs[i].meta => logs[i].meta["apiKey"] = <<"SET">>

C14_Witness ==
  /\ pc = "done"
  /\ Len(logs) = 3
  /\ "apiKey" \in DOMAIN logs[3].meta
  /\ config.apiKey = "sk-or-v1-other"

\* C15: the constructor throws when OPENROUTER_API_KEY is unset or empty, so
\* there is no instance and no upstream request with an empty key; with a
\* key, model and base URL are the environment's values or the defaults.
C15_NoInstanceWithoutKey ==
  /\ env.OPENROUTER_API_KEY = "" => instance \in {"unbuilt", "threw"}
  /\ env.OPENROUTER_API_KEY # "" => instance \in {"unbuilt", "built"}
  /\ instance = "built" =>
       /\ config.apiKey = env.OPENROUTER_API_KEY
       /\ config.apiKey # ""
       /\ config.model = IF env.OPENROUTER_MODEL # "" THEN env.OPENROUTER_MODEL
                         ELSE "deepseek/deepseek-chat-v3.1:free"
       /\ config.baseUrl = IF env.OPENROUTER_BASE_URL # "" THEN env.OPENROUTER_BASE_URL
                           ELSE "https://openrouter.ai/api/v1"
  /\ sent # <<>> => instance = "built" /\ config.apiKey # ""

C15_Witness == instance = "threw" /\ env.OPENROUTER_MODEL # "" /\ sent = <<>>

First100(text) == [i \in 1..(IF Len(text) < 100 THEN Len(text) ELSE 100) |-> text[i]]

\* the schema member of the default artifact for an argument
DefaultSchema(name, arg) ==
  IF arg = <<>> THEN (<<"schema", name>> :> <<"{}">>)
  ELSE (<<"schema", name, "a">> :> <<"1">>)

\* C17: on the fallback path parseApiPrompt returns {intent: the first 100
\* characters of the prompt, suggestedEndpoint: '/api/generated',
\* suggestedMethod: 'GET', parameters: [], complexity: 'medium'} and
\* generateApiCode returns {endpoint: '/api/generated', method: the given
\* method or 'GET', controllerCode: '// Generated from: <description>', a
\* newline and the raw text, serviceCode: '// Service logic would go here',
\* schema: {input: inputSchema or {}, output: outputSchema or {}}}.
C17_FallbackIsDefault ==
  (/\ GotReply
   /\ op \in ParsingOps
   /\ \/ ~FirstToLast(TheContent).found
      \/ ~JSONParse(FirstToLast(TheContent).text).ok) =>
    /\ outcome.kind = "returned"
    /\ op = "parseApiPrompt" =>
         outcome.obj =
           (<<"intent">> :> First100(req.prompt))
           @@ (<<"suggestedEndpoint">> :> <<"/api/generated">>)
           @@ (<<"suggestedMethod">> :> <<"GET">>)
           @@ (<<"parameters">> :> <<"[]">>)
           @@ (<<"complexity">> :> <<"medium">>)
    /\ op = "generateApiCode" =>
         outcome.obj =
           (<<"endpoint">> :> <<"/api/generated">>)
           @@ (<<"method">> :> (IF req.method # <<>> THEN req.method ELSE <<"GET">>))
           @@ (<<"controllerCode">> :>
                 (<<"// Generated from: ">> \o req.prompt \o <<"\n">> \o TheContent))
           @@ (<<"serviceCode">> :> <<"// Service logic would go here">>)
           @@ DefaultSchema("input", req.inputSchema)
           @@ DefaultSchema("output", req.outputSchema)

C17_Witness ==
  /\ GotReply
  /\ op = "parseApiPrompt"
  /\ ~FirstToLast(TheContent).found
  /\ Len(req.prompt) > 100
  /\ Len(outcome.obj[<<"intent">>]) = 100

\* what the upstream exchange of a call by itself makes of makeRequest
OwnExchange(call) ==
  IF call.timedOut
  THEN TransportFailed(createError(<<CommPrefix>> \o TimeoutMsg, 500))
  ELSE IF call.upstream.failure # ""
  THEN TransportFailed(MakeRequestCatch(NetworkError(call.upstream.failure)))
  ELSE CASE call.upstream.body = "text" ->
              TransportFailed(MakeRequestCatch(UpstreamStatusError(call.upstream.status)))
         [] call.upstream.body = "json" -> MakeRequestReturn(call.reply)
         [] call.upstream.body = "malformed" ->
              TransportFailed(MakeRequestCatch(InvalidJsonError))
         [] call.upstream.body = "broken" ->
              TransportFailed(MakeRequestCatch(BodyStreamError))
         [] OTHER -> NoTransport

\* every finished call has the outcome of its own exchange, and a call whose
\* own timer did not fire is never reported as timed out
OwnOutcomes ==
  \A c \in CallIds :
    /\ calls[c].pc = "done" =>
         /\ calls[c].transport = OwnExchange(calls[c])
         /\ calls[c].outcome = Facade(config, calls[c].op, calls[c].req, calls[c].transport)
    /\ calls[c].pc \in {"awaitFetch", "awaitBody"} =>
         /\ calls[c].transport = NoTransport
         /\ calls[c].outcome = Pending

\* C12: with several calls in flight on one instance, the timeout of a call
\* aborts that call's request only: every other call ends with the outcome
\* of its own upstream exchange; apiKey, model and baseUrl of the instance
\* never change.
C12_AbortIsLocal == [](OwnOutcomes) /\ [][config' = config]_vars

C12_Witness ==
  /\ calls[1].pc = "done"
  /\ calls[1].timedOut
  /\ calls[2].pc = "done"
  /\ calls[2].upstream.body = "json"
  /\ calls[2].outcome.kind = "returned"

C19_OnlyVerifiedChangesDb == webhook.changed => webhook.signed

\* C20: after any sequence of handled webhook events the row of a clerkId
\* reflects the user event handled last for it: present with that event's
\* email and role (public_metadata.role, or 'user' when absent) after
\* user.created or user.updated, absent after user.deleted.
C20_RowReflectsLastUserEvent ==
  \A u \in ClerkIds :
    /\ lastUserEvent[u].type \in {"user.created", "user.updated"} =>
         /\ db[u].present
         /\ db[u].email = (IF lastUserEvent[u].email_addresses = <<>> THEN ""
                           ELSE lastUserEvent[u].email_addresses[1])
         /\ db[u].role = (IF lastUserEvent[u].role = "" THEN "user"
                          ELSE lastUserEvent[u].role)
    /\ lastUserEvent[u].type = "user.deleted" => ~db[u].present

\* C21: behind authenticate the route handler runs only for a request
\* whose Bearer session Clerk verified, with req.user and req.auth set;
\* every other request gets a 401 error passed to next and no handler;
\* authenticate calls next once for each request.
C21_HandlerOnlyWhenVerified ==
  areq.mw = "authenticate" =>
    /\ areq.nextCalls <= 1
    /\ areq.handlerRan => /\ areq.verified
                          /\ IsBearer(areq.header)
                          /\ TokenUser(areq.token) = areq.user.id
                          /\ areq.user.set
                          /\ areq.auth.set
                          /\ areq.nextErr = NoError
    /\ areq.pc \in {"handler", "done"} =>
         /\ areq.nextCalls = 1
         /\ \/ areq.nextErr = NoError /\ areq.verified /\ areq.user.set /\ areq.auth.set
            \/ areq.nextErr.statusCode = 401 /\ ~areq.handlerRan

C21_Witness ==
  /\ areq.mw = "authenticate"
  /\ areq.pc = "done"
  /\ clerkSecret = ""
  /\ IsBearer(areq.header)
  /\ areq.nextErr.statusCode = 401

\* C22: authorize(...roles) calls next without error exactly when req.user
\* is set and its role is one of the roles, with a 401 error when req.user
\* is missing and a 403 error when the role is not allowed; getAllUsers
\* runs only for an authenticated user whose role is 'admin'.
C22_AuthorizeByRole ==
  /\ areq.mw = "authorize" =>
       /\ areq.authzCalls = 1
       /\ areq.authzErr = NoError <=> (areq.user.set /\ areq.user.role \in areq.roles)
       /\ ~areq.user.set => areq.authzErr.statusCode = 401
       /\ (areq.user.set /\ areq.user.role \notin areq.roles) =>
            areq.authzErr.statusCode = 403
       /\ areq.handlerRan <=> areq.authzErr = NoError
  /\ (areq.route = "/api/users" /\ areq.handlerRan) =>
       /\ areq.verified
       /\ areq.user.set
       /\ areq.user.role = "admin"
  /\ (areq.route = "/api/users" /\ areq.pc = "done" /\ areq.nextErr = NoError
      /\ areq.user.role # "admin") =>
       areq.authzErr.statusCode = 403 /\ ~areq.handlerRan

C22_Witness ==
  /\ areq.route = "/api/users"
  /\ areq.pc = "done"
  /\ areq.user.set
  /\ areq.user.role = "user"
  /\ areq.authzErr.statusCode = 403

\* C23: optionalAuth never rejects: for every request it calls next once
\* and without error; req.user and req.auth are set only when the session
\* of the token was verified, and both are unset otherwise.
C23_OptionalAuthNeverRejects ==
  areq.mw = "optionalAuth" =>
    /\ areq.nextCalls <= 1
    /\ areq.nextErr = NoError
    /\ areq.pc = "done" => areq.nextCalls = 1 /\ areq.handlerRan
    /\ areq.user.set => areq.verified /\ areq.auth.set
    /\ (areq.pc = "done" /\ areq.auth.set) => areq.user.set
    /\ ~areq.verified => ~areq.user.set /\ ~areq.auth.set

C23_Witness ==
  /\ areq.mw = "optionalAuth"
  /\ areq.pc = "done"
  /\ areq.raised # NoThrown
  /\ areq.handlerRan
  /\ ~areq.user.set

\* C24: authenticate reports a missing or non-Bearer Authorization header
\* as a 401 error 'Access token required', an unconfigured
\* CLERK_SECRET_KEY as a 500 error 'Clerk secret key not configured', and a
\* verified session without userId as a 401 error 'Invalid session'.
C24_FailureAsRaised ==
  (areq.mw = "authenticate" /\ areq.pc = "done") =>
    /\ ~IsBearer(areq.header) =>
         areq.nextErr = createError(<<"Access token required">>, 401)
    /\ (IsBearer(areq.header) /\ clerkSecret = "") =>
         areq.nextErr = createError(<<"Clerk secret key not configured">>, 500)
    /\ areq.raised.message = <<"Invalid ", "session">> =>
         areq.nextErr = createError(<<"Invalid ", "session">>, 401)

\* C26: the role authenticate attaches to req.user changes only through an
\* action of an existing admin or of Clerk itself: a request of a user who
\* is not admin never changes a role.
C26_NoSelfPromotion ==
  [][(clerk' # clerk /\ areq' # areq) => areq.user.role = "admin"]_vars

\* C25: a request to generateResponse, parsePrompt or generateApiCode whose
\* prompt (description) is missing or empty is answered 400 before the AI
\* service is called: no upstream request is issued for it and it is never
\* answered 200.
C25_EmptyPromptRejected ==
  (ctl.pc # "idle" /\ (~ctl.body.present \/ ctl.body.text = <<>>)) =>
    /\ ctl.pc = "done"
    /\ ctl.status = 400
    /\ ctl.calls = 0
    /\ pc = "idle"
    /\ sent = <<>>

C25_Witness ==
  /\ ctl.pc = "done"
  /\ ctl.route = "/generate-api-code"
  /\ ctl.body = Field(<<>>)
  /\ ctl.status = 400

\* C28: handleWebhook answers every request with 200: a failure inside an
\* event handler is swallowed and never becomes an error response, and an
\* event of an unhandled type is answered 200 with the database unchanged.
C28_WebhookAlways200 ==
  webhook.status # 0 =>
    /\ webhook.status = 200
    /\ webhook.unhandled => ~webhook.changed /\ ~webhook.failed

C28_Witness ==
  /\ webhook.status = 200
  /\ webhook.failed
  /\ ~webhook.changed

\* C27: however sync-user requests and user.created webhooks of a user
\* interleave, the table holds at most one row of the clerkId and every
\* sync-user request ends with 200 and that user's row, with lastLoginAt
\* set when the row was already there.
C27_SyncAlways200 ==
  /\ \A u \in ClerkIds : Cardinality({r \in {db[u]} : r.present}) <= 1
  /\ \A i \in SyncIds :
       syncs[i].pc = "done" =>
         /\ syncs[i].status = 200
         /\ syncs[i].row.present
         /\ syncs[i].row.email = ClerkEmail(syncs[i].user)
         /\ syncs[i].found => syncs[i].row.lastLoginAt

InFlight == chat.fetching + chat.reading

\* C29: at most one request of the chat component is in flight; a submit
\* starts a request only when the trimmed input is not empty and isLoading
\* is false, a submit while a request is pending changes neither the
\* messages nor the requests, and messages are only appended.
C29_OneRequestInFlight ==
  /\ [](InFlight <= 1 /\ (InFlight = 1 => chat.isLoading))
  /\ [][/\ IsPrefix(chat.messages, chat'.messages)
        /\ chat'.fetching > chat.fetching => Trim(chat.input) # "" /\ ~chat.isLoading
        /\ (chat'.event = "ignored" \/ InFlight > 0) =>
             chat'.fetching <= chat.fetching
        /\ chat'.event = "ignored" => chat'.messages = chat.messages]_vars

C29_Witness ==
  /\ chat.event = "ignored"
  /\ InFlight = 1
  /\ Trim(chat.input) # ""

\* the state of the chat after an accepted submit and before it settles
Submitted ==
  chat.last.kind = "pending" =>
    /\ Len(chat.messages) = chat.last.base + 1
    /\ chat.messages[chat.last.base + 1].role = "user"
    /\ chat.error.isNull
    /\ chat.isLoading

Answered ==
  /\ Len(chat.messages) = chat.last.base + 2
  /\ chat.messages[chat.last.base + 1].role = "user"
  /\ chat.messages[chat.last.base + 2].role = "assistant"
  /\ chat.error.isNull
  /\ ~chat.isLoading

Failed ==
  /\ Len(chat.messages) = chat.last.base + 1
  /\ chat.messages[chat.last.base + 1].role = "user"
  /\ ~chat.error.isNull
  /\ ~chat.isLoading

\* C30: an accepted submit appends the user's message, clears the error and
\* sets isLoading; when the request settles, an OK response has appended
\* exactly one assistant message after it with error null, a network
\* failure or a status that is not OK has appended nothing and set error;
\* in both cases isLoading returns to false.
C30_TwoOutcomes ==
  /\ [](/\ Submitted
        /\ (chat.last.kind = "settled" /\ chat.last.ok) => Answered
        /\ (chat.last.kind = "settled" /\ ~chat.last.ok) => Failed)
  /\ (chat.isLoading ~> ~chat.isLoading)

\* C30, amended: the assistant message follows an OK response whose body
\* is JSON and not null; a network failure, a status that is not OK, or
\* an OK response whose body is not JSON or is null appends nothing and
\* sets error; in every case isLoading returns to false.
C30_ThreeFailures ==
  /\ [](/\ Submitted
        /\ (chat.last.kind = "settled" /\ chat.last.ok /\ chat.last.body = "json") =>
             Answered
        /\ (chat.last.kind = "settled" /\ ~(chat.last.ok /\ chat.last.body = "json")) =>
             Failed)
  /\ (chat.isLoading ~> ~chat.isLoading)

C30_Witness ==
  /\ chat.last.kind = "settled"
  /\ chat.last.ok
  /\ chat.last.body = "malformed"
  /\ ~chat.error.isNull
  /\ ~chat.isLoading

====
